---- MODULE Spec2Model ----
(***************************************************************************)
(* Model of the partitioned write-ingestion engine of Neo4jInstance        *)
(* (database/neo4jdbms.py).  Both variants kept in the repository are      *)
(* modelled: "pyneoinstance" and "pyneoingest"; they differ in the except  *)
(* clauses of _execute_write / _execute_write_parallel.                    *)
(***************************************************************************)
EXTENDS Integers, Sequences, FiniteSets, TLC

\* ------------------------------------------------------------------ bounds
MaxRows == 3
MaxQueries == 2
MaxWorkersArg == 3
MaxCount == 1
CpuCount == 2

\* ------------------------------------------------------------ value model
Variants == {"pyneoinstance", "pyneoingest"}

\* a missing cell of the DataFrame (NaN / None)
NULL == "NaN"

EmptyMap == <<>>

\* the DataFrames handed to the engine: R rows, row i carries id i so that
\* rows are distinguishable; every even row has a missing `name` cell
DataFrame(R) ==
  [i \in 1..R |-> [id |-> i, name |-> IF i % 2 = 0 THEN NULL ELSE "n"]]

DataFrames == {DataFrame(R) : R \in 0..MaxRows}

\* the statements the callers send (classified by what the database answers)
Queries == {"create", "constraint"}

\* the read statements: the titles of the movies matching a parameter, and
\* a count of the nodes
ReadQueries == {"match_movie", "count_nodes", "list_movies"}

QueryLists == UNION {[1..n -> Queries] : n \in 0..MaxQueries}

\* optional arguments: <<>> is None, <<v>> is the value v
ParameterArgs == {<<>>, <<[id |-> 1]>>}
WorkersArgs == {<<>>, <<1>>}
PartitionArgs == (-1)..(MaxRows + 1)

\* every kind of `workers` argument: None, zero, negative, within and above
\* the number of execution units
WorkersRange ==
  {<<>>} \cup {<<w>> : w \in (-MaxWorkersArg)..(CpuCount + MaxWorkersArg)}

\* the calls explored: `workers` is varied in the calls that read it
\* (parallel=True), `parameters` in the calls with a single partition
WorkersFor(par) == IF par THEN WorkersArgs ELSE {<<>>}
ParametersFor(n) == IF n = 1 THEN ParameterArgs ELSE {<<>>}

\* `if parameters: params = parameters else: params = {}`
NormParams(parameters) ==
  IF parameters # <<>> /\ DOMAIN parameters[1] # {} THEN parameters[1]
  ELSE EmptyMap

\* ------------------------------------------------------------ partitioning
\* data.shape[0]
Shape0(data) == Len(data)

\* numpy.array_split: the first (Ntotal % Nsections) sections get
\* Ntotal \div Nsections + 1 rows, the others Ntotal \div Nsections
SectionSizeNoExtras(Ntotal, Nsections, i) ==
  IF i < Ntotal % Nsections THEN (Ntotal \div Nsections) + 1
  ELSE Ntotal \div Nsections

SectionSize(Ntotal, Nsections, i) ==
  IF i <= Ntotal % Nsections THEN (Ntotal \div Nsections) + 1
  ELSE Ntotal \div Nsections

RECURSIVE DivPoint(_, _, _)
DivPoint(Ntotal, Nsections, i) ==
  IF i = 0 THEN 0
  ELSE DivPoint(Ntotal, Nsections, i - 1) + SectionSize(Ntotal, Nsections, i)

ArraySplitReversed(data, Nsections) ==
  [i \in 1..Nsections |->
     SubSeq(data, DivPoint(Len(data), Nsections, Nsections - i) + 1,
                  DivPoint(Len(data), Nsections, Nsections - i + 1))]

ArraySplit(data, Nsections) ==
  [i \in 1..Nsections |->
     SubSeq(data, DivPoint(Len(data), Nsections, i - 1) + 1,
                  DivPoint(Len(data), Nsections, i))]

\* np.array_split raises ValueError when the number of sections is not positive
ArraySplitFailsBelowZero(Nsections) == Nsections < 0

ArraySplitFails(Nsections) == Nsections <= 0

\* d.fillna(value='').to_dict('records')
FillNaKeepsNull(rows) == rows

\* the caller's dataset once fillna has been applied to its batches: fillna
\* gives a new frame and leaves the one it is called on as it was
AfterFillNaInPlace(d) ==
  [i \in 1..Len(d) |-> [d[i] EXCEPT !.name = IF @ = NULL THEN "" ELSE @]]

AfterFillNa(d) == d

FillNa(rows) ==
  [i \in 1..Len(rows) |->
     [rows[i] EXCEPT !.name = IF @ = NULL THEN "" ELSE @]]

\* `if partitions > data.shape[0]: raise ValueError`
PartitionCheckMissing(partitions, data) == FALSE

PartitionCheckOffByOne(partitions, data) == partitions > Shape0(data) + 1

PartitionCheckFails(partitions, data) == partitions > Shape0(data)

\* ------------------------------------------------------------ the database
\* result.consume().counters.__dict__ : only the counters the server
\* reports are present; True is the integer 1
DbCounters(query, rows) ==
  CASE query = "create" ->
         [nodes_created |-> IF rows = <<>> THEN 1 ELSE Len(rows),
          properties_set |-> IF rows = <<>> THEN 2 ELSE 2 * Len(rows),
          _contains_updates |-> 1]
    [] OTHER ->
         [constraints_added |-> 1, _contains_updates |-> 1]

\* what the database hands back for a read statement: results.keys(), the
\* column names, and results.values(), the rows in the order it produced them
DbKeys(query) ==
  CASE query = "match_movie" -> <<"movie">>
    [] query = "count_nodes" -> <<"node_num">>
    [] OTHER -> <<"movie", "released">>

DbValues(query, ps) ==
  CASE query = "match_movie" ->
         (IF "id" \in DOMAIN ps THEN << <<ps.id>> >> ELSE <<>>)
    [] query = "count_nodes" -> << <<0>> >>
    [] OTHER -> << <<2, 20>>, <<1, 10>> >>

\* DataFrame(results.values(), columns=results.keys())
ReadFrameReversed(keys, values) ==
  [columns |-> keys,
   rows |-> [i \in 1..Len(values) |->
               [k \in {keys[j] : j \in 1..Len(keys)} |->
                  values[Len(values) + 1 - i]
                        [CHOOSE j \in 1..Len(keys) : keys[j] = k]]]]

ReadFrame(keys, values) ==
  [columns |-> keys,
   rows |-> [i \in 1..Len(values) |->
               [k \in {keys[j] : j \in 1..Len(keys)} |->
                  values[i][CHOOSE j \in 1..Len(keys) : keys[j] = k]]]]

\* the rows a read query hands back: the titles of the movies matching the
\* parameter, the node count, or the list of the movies
DbRows(query, ps) == ReadFrame(DbKeys(query), DbValues(query, ps))

DriverOutcomes == {"ok", "ServiceUnavailable", "AuthError", "ConfigurationError"}

\* what the endpoint answers to a connection made with these credentials
EndpointAnswer(info) ==
  IF info.uri = "not-a-uri" THEN "ConfigurationError"
  ELSE IF info.uri = "bolt://down" THEN "ServiceUnavailable"
  ELSE IF info.password = "wrong" THEN "AuthError"
  ELSE "ok"

\* GraphDatabase.driver(uri, auth=(user, password)): credentials the endpoint
\* refuses are always refused, good ones can still meet a failing service
DriverOutcomesFor(info) ==
  IF EndpointAnswer(info) = "ok" THEN DriverOutcomes
  ELSE {EndpointAnswer(info)}
TxOutcomes == {"ok", "ServiceUnavailable", "ClientError"}

\* ------------------------------------------------------------ aggregation
Get(m, k) == IF k \in DOMAIN m THEN m[k] ELSE 0

\* for key, value in result.items():
\*     if key != '_contains_updates': results[key] += value
MergeOneOverwrites(acc, result) ==
  [k \in (DOMAIN acc) \cup ((DOMAIN result) \ {"_contains_updates"}) |->
     IF k \in DOMAIN result THEN result[k] ELSE acc[k]]

MergeOneKeepsFlag(acc, result) ==
  [k \in (DOMAIN acc) \cup (DOMAIN result) |-> Get(acc, k) + Get(result, k)]

MergeOne(acc, result) ==
  [k \in (DOMAIN acc) \cup ((DOMAIN result) \ {"_contains_updates"}) |->
     Get(acc, k) + Get(result, k)]

RECURSIVE MergeAll(_, _)
MergeAll(acc, results) ==
  IF results = <<>> THEN acc
  ELSE MergeAll(MergeOne(acc, Head(results)), Tail(results))

\* the counters a transaction can report, and the running totals
CounterNames == {"nodes_created", "properties_set", "constraints_added"}

CounterMaps ==
  UNION {[S -> 0..MaxCount] :
           S \in SUBSET (CounterNames \cup {"_contains_updates"})}

RunningTotals == UNION {[S -> 0..MaxCount] : S \in SUBSET CounterNames}

\* results.append(counters): the local list of the sequential strategy
AppendResultFirst(rs, counters) == <<counters>> \o rs

AppendResult(rs, counters) == Append(rs, counters)

\* self.__results.clear()
ClearedNot(acc) == acc

Cleared(acc) == EmptyMap

\* ------------------------------------------------------------ error paths
\* the except clauses of _get_driver re-raise the kind they caught
DriverExcOneKind(kind) == "ServiceUnavailable"

DriverExc(kind) == kind

\* the except clauses of _execute_write / _execute_write_parallel:
\* pyneoinstance re-raises the kind it caught; in pyneoingest the first
\* clause is `except ServiceUnavailable() as exception`, an instance, so
\* matching any exception against it raises TypeError
WriteExc(v, kind) == IF v = "pyneoingest" THEN "TypeError" ELSE kind

\* the inner loop `for query in queries` inside `for rows in data_chunks`:
\* the position after statement q of batch b, nq statements in the list
SeqAdvanceFirstStatementOnly(q, b, nq) == <<1, b + 1>>

SeqAdvanceStatementMajor(q, b, nq) ==
  IF b < nq THEN <<q, b + 1>> ELSE <<q + 1, 1>>

SeqAdvanceSamePair(q, b, nq) == IF q < nq THEN <<q, b>> ELSE <<1, b + 1>>

SeqAdvance(q, b, nq) == IF q < nq THEN <<q + 1, b>> ELSE <<1, b + 1>>

\* MapResult: starmap raises when a worker handed back an exception
PoolFailedIgnored(err) == FALSE

PoolFailed(err) == err # "none"

\* `if workers and workers > 0 and workers <= mp.cpu_count()`
WorkersNumNoUpperBound(workers) ==
  IF workers # <<>> /\ workers[1] # 0 /\ workers[1] > 0
  THEN workers[1] ELSE CpuCount

WorkersNum(workers) ==
  IF workers # <<>> /\ workers[1] # 0 /\ workers[1] > 0 /\ workers[1] <= CpuCount
  THEN workers[1] ELSE CpuCount

\* ------------------------------------------------------------------ state
VARIABLES
  variant,        \* which variant of the module is running
  pc,             \* position of the caller inside the public operation
  op,             \* the public operation in progress
  queries, data, partitions, parallel, workers, parameters,   \* its arguments
  data_chunks, params, workers_num,                           \* its locals
  results, resultsBound,   \* the local `results` list and whether it is bound
  wq_results,              \* the local defaultdict of execute_write_queries
  bi, qi,                  \* loop positions: batch index, statement index
  self_results,            \* self.__results
  ret, exc,                \* the returned mapping / the raised exception kind
  openDrivers, openSessions,  \* owners (0 = caller, b = task of batch b)
  poolOpen, tasks, taskRet, poolErr,  \* the mp.Pool of the current statement
  poolCause,               \* what the database raised where poolErr was raised
  opened,                  \* drivers and sessions opened so far in this call
  txlog,                   \* the caller's own write transactions, in order
  workerTx,                \* the workers' write transactions, per (q, b)
  threads,                 \* threaded strategy: the worker thread of batch b
  lock,                    \* holder of the aggregate's lock (0: free)
  snap,                    \* the aggregate as read by thread b in its merge
  frame,                   \* arguments and locals of the helper function running
  callers,                 \* overlapping calls: the frame of each caller thread
  neo_info                 \* self.neo_info: the endpoint credentials

vars == <<variant, pc, op, queries, data, partitions, parallel, workers,
          parameters, data_chunks, params, workers_num, results,
          resultsBound, wq_results, bi, qi, self_results, ret, exc,
          openDrivers, openSessions, poolOpen, tasks, taskRet, poolErr,
          poolCause, opened, txlog, workerTx, threads, lock, snap, frame,
          callers, neo_info>>

argVars == <<queries, data, partitions, parallel, workers, parameters>>
poolVars == <<poolOpen, tasks, taskRet, poolErr, poolCause>>
connVars == <<openDrivers, openSessions>>
threadVars == <<threads, lock, snap>>

\* nothing opened yet, no driver refused
NoneOpened ==
  [callerDrivers |-> 0, callerSessions |-> 0,
   workerDrivers |-> 0, workerSessions |-> 0, pools |-> 0,
   refused |-> "none", reads |-> <<>>]

\* the threads of the caller that may call into one Neo4jInstance at a time
CallerThreads == {1, 2}

IdleCaller ==
  [pc |-> "idle", queries |-> <<>>, data_chunks |-> <<>>, bi |-> 0, qi |-> 0,
   results |-> <<>>, txlog |-> <<>>, ret |-> <<>>, exc |-> "none"]

NoCallers == [t \in CallerThreads |-> IdleCaller]

DataOps == {"execute_write_queries_with_data", "execute_write_query_with_data"}
PlainOps == {"execute_write_queries", "execute_write_query"}

\* the credentials __init__ stores: uri, user, password and the `encrypted`
\* keyword, '' when it is not given
Credentials ==
  [uri |-> "bolt://host", user |-> "neo4j", password |-> "secret",
   encrypted |-> ""]

\* the arguments of the constructor: uri, user, password and the optional
\* `encrypted` keyword
ConstructorArgs ==
  [uri : {"bolt://host", "bolt://down", "not-a-uri"}, user : {"neo4j"},
   password : {"secret", "wrong"}, encrypted : {"None", "False", "True"}]

\* kwargs.get('encrypted') or ''
EncryptedOrEmpty(e) == IF e \in {"None", "False"} THEN "" ELSE e

\* Neo4jInstance.__init__
Init ==
  /\ variant \in Variants
  /\ pc = "idle"
  /\ op = "none"
  /\ queries = <<>> /\ data = <<>> /\ partitions = 1 /\ parallel = FALSE
  /\ workers = <<>> /\ parameters = <<>>
  /\ data_chunks = <<>> /\ params = EmptyMap /\ workers_num = 0
  /\ results = <<>> /\ resultsBound = FALSE
  /\ wq_results = EmptyMap
  /\ bi = 0 /\ qi = 0
  /\ self_results = EmptyMap
  /\ ret = EmptyMap /\ exc = "none"
  /\ openDrivers = {} /\ openSessions = {}
  /\ poolOpen = FALSE /\ tasks = <<>> /\ taskRet = <<>> /\ poolErr = "none"
  /\ poolCause = "none"
  /\ opened = NoneOpened
  /\ txlog = <<>> /\ workerTx = <<>>
  /\ threads = <<>> /\ lock = 0 /\ snap = <<>>
  /\ frame = <<>>
  /\ callers = NoCallers
  /\ neo_info = Credentials

\* no public operation is in progress: a call can start
Between == pc = "idle"

\* the frame every call starts from: the previous call's locals are gone
FreshLocals ==
  /\ results' = <<>>
  /\ wq_results' = EmptyMap
  /\ bi' = 0 /\ qi' = 0
  /\ ret' = EmptyMap
  /\ txlog' = <<>>
  /\ poolOpen' = FALSE /\ tasks' = <<>> /\ taskRet' = <<>> /\ poolErr' = "none"
  /\ poolCause' = "none"
  /\ opened' = NoneOpened

\* the single-statement operations call the plural ones with `[query]`;
\* execute_write_query_with_data hands over the mapping it normalised
WrapQuery(q) == <<q>>

WrapParamsDropped(p) == <<EmptyMap>>

WrapParams(p) == <<NormParams(p)>>

\* `if parallel:` selects the strategy of the call
UseParallelAlways(par) == TRUE

UseParallel(par) == par

\* execute_write_queries_with_data up to the strategy selection
EnterWithData(o, qs, d, n, par, w, p, received) ==
  /\ Between
  /\ op' = o
  /\ queries' = qs /\ data' = d /\ partitions' = n /\ parallel' = par
  /\ workers' = w /\ parameters' = p
  /\ FreshLocals
  /\ UNCHANGED <<variant, self_results, connVars>>
  /\ IF PartitionCheckFails(n, d) \/ ArraySplitFails(n)
     THEN \* ValueError of the check, or of np.array_split for n <= 0
          /\ pc' = "raised" /\ exc' = "ValueError"
          /\ resultsBound' = FALSE
          /\ workerTx' = <<>>
          /\ data_chunks' = <<>> /\ params' = EmptyMap /\ workers_num' = 0
     ELSE /\ data_chunks' = ArraySplit(d, n)
          /\ params' = NormParams(received)
          /\ exc' = "none"
          /\ IF UseParallel(par)
             THEN /\ workers_num' = WorkersNum(w)
                  /\ resultsBound' = FALSE
                  /\ workerTx' = [x \in (1..Len(qs)) \X (1..n) |-> <<>>]
                  /\ pc' = "par_next"
             ELSE /\ workers_num' = 0
                  /\ resultsBound' = TRUE      \* results = []
                  /\ workerTx' = <<>>
                  /\ pc' = "seq_driver"
  /\ UNCHANGED threadVars
  /\ UNCHANGED frame
  /\ UNCHANGED callers
  /\ UNCHANGED neo_info

execute_write_queries_with_data ==
  \E qs \in QueryLists, d \in DataFrames, n \in PartitionArgs,
     par \in BOOLEAN :
    \E w \in WorkersFor(par), p \in ParametersFor(n) :
    EnterWithData("execute_write_queries_with_data", qs, d, n, par, w, p, p)

execute_write_query_with_data ==
  \E q \in Queries, d \in DataFrames, n \in PartitionArgs,
     par \in BOOLEAN :
    \E w \in WorkersFor(par), p \in ParametersFor(n) :
    EnterWithData("execute_write_query_with_data", WrapQuery(q), d, n, par, w,
                  p, WrapParams(p))

\* execute_write_query_with_data(query, data, partitions=n, parallel=True,
\* workers=w)
execute_write_query_with_data_parallel ==
  \E d \in DataFrames, n \in 1..MaxRows, w \in WorkersRange :
    /\ n <= Shape0(d)
    /\ EnterWithData("execute_write_query_with_data", WrapQuery("create"), d,
                     n, TRUE, w, <<>>, WrapParams(<<>>))

\* execute_write_queries up to `with _get_driver(...)`
EnterPlain(o, qs, p) ==
  /\ Between
  /\ op' = o
  /\ queries' = qs /\ parameters' = p
  /\ data' = <<>> /\ partitions' = 1 /\ parallel' = FALSE /\ workers' = <<>>
  /\ FreshLocals
  /\ resultsBound' = FALSE
  /\ workerTx' = <<>>
  /\ data_chunks' = <<>> /\ workers_num' = 0
  /\ params' = NormParams(p)
  /\ exc' = "none"
  /\ pc' = "seq_driver"
  /\ UNCHANGED <<variant, self_results, connVars>>
  /\ UNCHANGED threadVars
  /\ UNCHANGED frame
  /\ UNCHANGED callers
  /\ UNCHANGED neo_info

\* execute_write_queries_with_data with arguments its checks accept, in
\* either mode, with one or two statements and `workers` missing or 1
execute_write_queries_with_data_accepted ==
  \E qs \in {<<"create">>, <<"create", "constraint">>}, d \in DataFrames,
     n \in 1..MaxRows, par \in BOOLEAN, w \in WorkersArgs :
    /\ n <= Shape0(d)
    /\ EnterWithData("execute_write_queries_with_data", qs, d, n, par, w,
                     <<>>, <<>>)

execute_write_queries ==
  \E qs \in QueryLists, p \in ParameterArgs :
    EnterPlain("execute_write_queries", qs, p)

execute_write_query ==
  \E q \in Queries, p \in ParameterArgs :
    EnterPlain("execute_write_query", WrapQuery(q), p)

\* execute_read_query(query, database, parameters)
execute_read_query ==
  \E q \in ReadQueries, p \in ParameterArgs :
    /\ Between
    /\ op' = "execute_read_query"
    /\ queries' = <<q>> /\ parameters' = p
    /\ data' = <<>> /\ partitions' = 1 /\ parallel' = FALSE /\ workers' = <<>>
    /\ FreshLocals
    /\ resultsBound' = FALSE
    /\ workerTx' = <<>>
    /\ data_chunks' = <<>> /\ workers_num' = 0
    /\ params' = NormParams(p)
    /\ exc' = "none"
    /\ pc' = "seq_driver"
    /\ UNCHANGED <<variant, self_results, connVars>>
    /\ UNCHANGED threadVars
    /\ UNCHANGED frame
    /\ UNCHANGED callers
    /\ UNCHANGED neo_info

\* ------------------------------------------------- the caller's connection
\* leaving the `with` blocks by an exception: session and driver are closed
RaiseFromCallerLeak(kind) ==
  /\ pc' = "raised" /\ exc' = kind
  /\ UNCHANGED <<openDrivers, openSessions>>

RaiseFromCaller(kind) ==
  /\ pc' = "raised" /\ exc' = kind
  /\ openDrivers' = openDrivers \ {0}
  /\ openSessions' = openSessions \ {0}

\* with _get_driver(self.neo_info) as driver
GetDriver ==
  /\ pc = "seq_driver"
  /\ \E outcome \in DriverOutcomesFor(neo_info) :
       IF outcome = "ok"
       THEN /\ openDrivers' = openDrivers \cup {0}
            /\ opened' = [opened EXCEPT !.callerDrivers = @ + 1]
            /\ pc' = "seq_session"
            /\ UNCHANGED <<exc, openSessions>>
       ELSE /\ RaiseFromCaller(DriverExc(outcome))
            /\ opened' = [opened EXCEPT !.refused = outcome]
  /\ UNCHANGED <<variant, op, argVars, data_chunks, params, workers_num,
                 results, resultsBound, wq_results, bi, qi, self_results,
                 ret, poolVars, txlog, workerTx>>
  /\ UNCHANGED threadVars
  /\ UNCHANGED frame
  /\ UNCHANGED callers
  /\ UNCHANGED neo_info

\* with _get_session(driver, database) as session
GetSession ==
  /\ pc = "seq_session"
  /\ openSessions' = openSessions \cup {0}
  /\ opened' = [opened EXCEPT !.callerSessions = @ + 1]
  /\ bi' = 1 /\ qi' = 1
  /\ pc' = IF op \in DataOps THEN "seq_loop"
           ELSE IF op \in PlainOps THEN "wq_loop" ELSE "rd_tx"
  /\ UNCHANGED <<variant, op, argVars, data_chunks, params, workers_num,
                 results, resultsBound, wq_results, self_results, ret, exc,
                 openDrivers, poolVars, txlog, workerTx>>
  /\ UNCHANGED threadVars
  /\ UNCHANGED frame
  /\ UNCHANGED callers
  /\ UNCHANGED neo_info

\* one session.execute_write(...) as _execute_write / _execute_write_parallel
\* issue it: the batch is the parameter `rows` when `if rows:` holds
\* the log keeps the kind a failed transaction of the caller raised; of a
\* worker's failed transaction it keeps that it failed (the pool keeps only
\* the first exception handed back, see poolErr and poolCause)
Committed(outcome) == IF outcome = "ok" THEN "ok" ELSE "failed"

TxRecord(q, b, rows, outcome, owner) ==
  [q |-> q, b |-> b, query |-> queries[q], rows |-> rows, params |-> params,
   outcome |-> outcome, owner |-> owner,
   counters |-> IF outcome = "ok" THEN DbCounters(queries[q], rows)
                ELSE EmptyMap]

\* ------------------------------------------------------- sequential strategy
\* for rows in data_chunks: for query in queries: results.append(_execute_write(...))
SeqTx ==
  /\ pc = "seq_loop"
  /\ bi <= Len(data_chunks) /\ qi <= Len(queries)
  /\ LET rows == FillNa(data_chunks[bi]) IN
     \E outcome \in TxOutcomes :
       /\ txlog' = Append(txlog, TxRecord(qi, bi, rows, outcome, 0))
       /\ IF outcome = "ok"
          THEN /\ results' = AppendResult(results,
                                          DbCounters(queries[qi], rows))
               /\ qi' = SeqAdvance(qi, bi, Len(queries))[1]
               /\ bi' = SeqAdvance(qi, bi, Len(queries))[2]
               /\ UNCHANGED <<pc, exc, connVars>>
          ELSE /\ RaiseFromCaller(WriteExc(variant, outcome))
               /\ UNCHANGED <<results, bi, qi>>
  /\ UNCHANGED <<variant, op, queries, partitions, parallel, workers,
                 parameters, data_chunks, params, workers_num,
                 resultsBound, wq_results, self_results, ret, poolVars,
                 workerTx, opened>>
  /\ UNCHANGED threadVars
  /\ UNCHANGED frame
  /\ UNCHANGED callers
  /\ UNCHANGED neo_info
  /\ data' = AfterFillNa(data)

\* both loops are exhausted: the `with` blocks are left normally
SeqExit ==
  /\ pc = "seq_loop"
  /\ bi > Len(data_chunks) \/ queries = <<>>
  /\ openDrivers' = openDrivers \ {0}
  /\ openSessions' = openSessions \ {0}
  /\ pc' = "merge"
  /\ UNCHANGED <<variant, op, argVars, data_chunks, params, workers_num,
                 results, resultsBound, wq_results, bi, qi, self_results,
                 ret, exc, poolVars, txlog, workerTx, opened>>
  /\ UNCHANGED threadVars
  /\ UNCHANGED frame
  /\ UNCHANGED callers
  /\ UNCHANGED neo_info

\* ----------------------------------------------------- execute_write_queries
\* for query in queries: result = _execute_write(session, query, ...); merge
WqTx ==
  /\ pc = "wq_loop"
  /\ qi <= Len(queries)
  /\ \E outcome \in TxOutcomes :
       /\ txlog' = Append(txlog, TxRecord(qi, 0, <<>>, outcome, 0))
       /\ IF outcome = "ok"
          THEN /\ wq_results' = MergeOne(wq_results, DbCounters(queries[qi], <<>>))
               /\ qi' = qi + 1
               /\ UNCHANGED <<pc, exc, connVars>>
          ELSE /\ RaiseFromCaller(WriteExc(variant, outcome))
               /\ UNCHANGED <<wq_results, qi>>
  /\ UNCHANGED <<variant, op, argVars, data_chunks, params, workers_num,
                 results, resultsBound, bi, self_results, ret, poolVars,
                 workerTx, opened>>
  /\ UNCHANGED threadVars
  /\ UNCHANGED frame
  /\ UNCHANGED callers
  /\ UNCHANGED neo_info

\* return dict(results)
WqReturn ==
  /\ pc = "wq_loop"
  /\ qi > Len(queries)
  /\ openDrivers' = openDrivers \ {0}
  /\ openSessions' = openSessions \ {0}
  /\ ret' = wq_results
  /\ pc' = "returned"
  /\ UNCHANGED <<variant, op, argVars, data_chunks, params, workers_num,
                 results, resultsBound, wq_results, bi, qi, self_results,
                 exc, poolVars, txlog, workerTx, opened>>
  /\ UNCHANGED threadVars
  /\ UNCHANGED frame
  /\ UNCHANGED callers
  /\ UNCHANGED neo_info

\* ------------------------------------------------------------ read query
\* result = session.execute_read(_read_transaction_function, query=query,
\* **params); the session and the driver are closed on the way out
ReadTx ==
  /\ pc = "rd_tx"
  /\ \E outcome \in TxOutcomes :
       /\ opened' = [opened EXCEPT !.reads =
                       Append(@, [query |-> queries[1], params |-> params,
                                  access |-> "READ", outcome |-> outcome])]
       /\ IF outcome = "ok"
          THEN /\ ret' = DbRows(queries[1], params)
               /\ openSessions' = openSessions \ {0}
               /\ openDrivers' = openDrivers \ {0}
               /\ pc' = "returned"
               /\ UNCHANGED exc
          ELSE /\ RaiseFromCaller(outcome)
               /\ UNCHANGED ret
  /\ UNCHANGED <<variant, op, argVars, data_chunks, params, workers_num,
                 results, resultsBound, wq_results, bi, qi, self_results,
                 poolVars, txlog, workerTx>>
  /\ UNCHANGED threadVars
  /\ UNCHANGED frame
  /\ UNCHANGED callers
  /\ UNCHANGED neo_info

\* --------------------------------------------------------- parallel strategy
\* the driver and session a worker uses for the task of batch b are the ones
\* it opens itself from its copy of neo_info (0 is the caller's)
WorkerConnShared(b) == 0

WorkerConn(b) == b

\* MapResult._set: the result is ready once every task has handed back its
\* counters or its exception
AllDoneOnlySuccess(ts, err) == \A b \in DOMAIN ts : ts[b] = "ok"

AllDoneDispatched(ts, err) == \A b \in DOMAIN ts : ts[b] # "pending"

AllDoneFailFast(ts, err) ==
  (\A b \in DOMAIN ts : ts[b] \in {"ok", "failed"}) \/ err # "none"

AllDoneNoWait(ts, err) == TRUE

AllDoneFirstResult(ts, err) == \E b \in DOMAIN ts : ts[b] = "ok"

AllDone(ts, err) == \A b \in DOMAIN ts : ts[b] \in {"ok", "failed"}

Running == {b \in DOMAIN tasks : tasks[b] = "running"}

\* mp.Pool(workers_num): a task is taken when one of the workers_num
\* processes of the pool is idle
WorkerFreeAlways(running, n) == TRUE

WorkerFree(running, n) == Cardinality(running) < n

\* for query in queries: with mp.Pool(workers_num) as worker_pool: starmap(...)
PoolStart ==
  /\ pc = "par_next"
  /\ qi < Len(queries)
  /\ qi' = qi + 1
  /\ poolOpen' = TRUE
  /\ tasks' = [b \in 1..Len(data_chunks) |-> "pending"]
  /\ taskRet' = [b \in 1..Len(data_chunks) |-> EmptyMap]
  /\ poolErr' = "none"
  /\ UNCHANGED poolCause
  /\ opened' = [opened EXCEPT !.pools = @ + 1]
  /\ pc' = "par_pool"
  /\ UNCHANGED <<variant, op, queries, partitions, parallel, workers,
                 parameters, data_chunks, params, workers_num,
                 results, resultsBound, wq_results, bi, self_results, ret,
                 exc, connVars, txlog, workerTx>>
  /\ UNCHANGED threadVars
  /\ UNCHANGED frame
  /\ UNCHANGED callers
  /\ UNCHANGED neo_info
  /\ data' = AfterFillNa(data)

\* a free worker of the pool takes the next task and enters
\* _execute_write_parallel: `with _get_driver(...)`, `with _get_session(...)`
TaskStart(b) ==
  /\ pc = "par_pool"
  /\ b \in DOMAIN tasks /\ tasks[b] = "pending"
  /\ \A c \in DOMAIN tasks : c < b => tasks[c] # "pending"
  /\ WorkerFree(Running, workers_num)
  /\ \E outcome \in DriverOutcomesFor(neo_info) :
       IF outcome = "ok"
       THEN /\ tasks' = [tasks EXCEPT ![b] = "running"]
            /\ openDrivers' = openDrivers \cup {WorkerConn(b)}
            /\ openSessions' = openSessions \cup {WorkerConn(b)}
            /\ opened' = [opened EXCEPT !.workerDrivers = @ + 1,
                                        !.workerSessions = @ + 1]
            /\ UNCHANGED <<poolErr, poolCause>>
       ELSE /\ tasks' = [tasks EXCEPT ![b] = "failed"]
            /\ poolErr' = IF poolErr = "none" THEN DriverExc(outcome) ELSE poolErr
            /\ poolCause' = IF poolErr = "none" THEN "connect" ELSE poolCause
            /\ opened' = IF poolErr = "none"
                         THEN [opened EXCEPT !.refused = outcome] ELSE opened
            /\ UNCHANGED connVars
  /\ UNCHANGED <<variant, pc, op, argVars, data_chunks, params, workers_num,
                 results, resultsBound, wq_results, bi, qi, self_results,
                 ret, exc, poolOpen, taskRet, txlog, workerTx>>
  /\ UNCHANGED threadVars
  /\ UNCHANGED frame
  /\ UNCHANGED callers
  /\ UNCHANGED neo_info

\* the worker runs its write transaction, leaves both `with` blocks and
\* hands its counters, or its exception, back to the pool
TaskTx(b) ==
  /\ pc = "par_pool"
  /\ b \in DOMAIN tasks /\ tasks[b] = "running"
  /\ LET rows == FillNa(data_chunks[b]) IN
     \E outcome \in TxOutcomes :
       /\ workerTx' = [workerTx EXCEPT
                         ![<<qi, b>>] =
                            Append(@, TxRecord(qi, b, rows, Committed(outcome),
                                               WorkerConn(b)))]
       /\ IF outcome = "ok"
          THEN /\ tasks' = [tasks EXCEPT ![b] = "ok"]
               /\ taskRet' = [taskRet EXCEPT ![b] = DbCounters(queries[qi], rows)]
               /\ UNCHANGED <<poolErr, poolCause>>
          ELSE /\ tasks' = [tasks EXCEPT ![b] = "failed"]
               /\ poolErr' = IF poolErr = "none" THEN WriteExc(variant, outcome)
                             ELSE poolErr
               /\ poolCause' = IF poolErr = "none" THEN outcome ELSE poolCause
               /\ UNCHANGED taskRet
  /\ openDrivers' = openDrivers \ {WorkerConn(b)}
  /\ openSessions' = openSessions \ {WorkerConn(b)}
  /\ UNCHANGED <<variant, pc, op, argVars, data_chunks, params, workers_num,
                 results, resultsBound, wq_results, bi, qi, self_results,
                 ret, exc, poolOpen, txlog, opened>>
  /\ UNCHANGED threadVars
  /\ UNCHANGED frame
  /\ UNCHANGED callers
  /\ UNCHANGED neo_info

\* starmap returns the list of the workers' counters once every task is
\* done, or raises the first exception a worker handed back; the pool is
\* terminated on leaving the `with` block
PoolJoin ==
  /\ pc = "par_pool"
  /\ AllDone(tasks, poolErr)
  /\ IF ~PoolFailed(poolErr)
     THEN /\ results' = taskRet
          /\ resultsBound' = TRUE
          /\ pc' = "par_next"
          /\ UNCHANGED exc
     ELSE /\ pc' = "raised" /\ exc' = poolErr
          /\ UNCHANGED <<results, resultsBound>>
  /\ poolOpen' = FALSE /\ tasks' = <<>> /\ taskRet' = <<>> /\ poolErr' = "none"
  /\ UNCHANGED poolCause
  /\ UNCHANGED <<variant, op, argVars, data_chunks, params, workers_num,
                 wq_results, bi, qi, self_results, ret, connVars, txlog,
                 workerTx, opened>>
  /\ UNCHANGED threadVars
  /\ UNCHANGED frame
  /\ UNCHANGED callers
  /\ UNCHANGED neo_info

\* the statement loop is exhausted
ParDone ==
  /\ pc = "par_next"
  /\ qi >= Len(queries)
  /\ pc' = "merge"
  /\ UNCHANGED <<variant, op, argVars, data_chunks, params, workers_num,
                 results, resultsBound, wq_results, bi, qi, self_results,
                 ret, exc, connVars, poolVars, txlog, workerTx, opened>>
  /\ UNCHANGED threadVars
  /\ UNCHANGED frame
  /\ UNCHANGED callers
  /\ UNCHANGED neo_info

\* --------------------------------------------------------- threaded strategy
\* the statements of the threaded calls explored
ThreadedQueryLists == UNION {[1..n -> {"create"}] : n \in 1..MaxQueries}

\* a call of the with-data operation in threaded mode, up to the shared
\* connection
ThreadedEnter ==
  \E qs \in ThreadedQueryLists, d \in DataFrames, n \in 1..MaxRows :
    /\ Between
    /\ ~PartitionCheckFails(n, d)
    /\ op' = "execute_write_queries_with_data_threaded"
    /\ queries' = qs /\ data' = d /\ partitions' = n /\ parallel' = FALSE
    /\ workers' = <<>> /\ parameters' = <<>>
    /\ FreshLocals
    /\ data_chunks' = ArraySplit(d, n)
    /\ params' = EmptyMap /\ workers_num' = 0
    /\ resultsBound' = FALSE
    /\ workerTx' = [x \in (1..Len(qs)) \X (1..n) |-> <<>>]
    /\ threads' = <<>> /\ lock' = 0 /\ snap' = [b \in 1..n |-> EmptyMap]
    /\ exc' = "none"
    /\ pc' = "thr_driver"
    /\ UNCHANGED <<variant, self_results, connVars>>
  /\ UNCHANGED frame
  /\ UNCHANGED callers
  /\ UNCHANGED neo_info

\* the one connection the worker threads share
ThreadedConnect ==
  /\ pc = "thr_driver"
  /\ \E outcome \in DriverOutcomesFor(neo_info) :
       IF outcome = "ok"
       THEN /\ openDrivers' = openDrivers \cup {0}
            /\ opened' = [opened EXCEPT !.callerDrivers = @ + 1]
            /\ pc' = "thr_spawn"
            /\ UNCHANGED <<exc, openSessions>>
       ELSE /\ RaiseFromCaller(DriverExc(outcome))
            /\ opened' = [opened EXCEPT !.refused = outcome]
  /\ UNCHANGED <<variant, op, argVars, data_chunks, params, workers_num,
                 results, resultsBound, wq_results, bi, qi, self_results,
                 ret, poolVars, txlog, workerTx, threadVars>>
  /\ UNCHANGED frame
  /\ UNCHANGED callers
  /\ UNCHANGED neo_info

\* one worker thread is spawned per batch; the wave is complete before the
\* orchestrator starts to join
ThreadSpawn ==
  /\ pc = "thr_spawn"
  /\ threads' = Append(threads, [st |-> "spawned", q |-> 1])
  /\ pc' = IF Len(threads) + 1 = Len(data_chunks) THEN "thr_join"
           ELSE "thr_spawn"
  /\ UNCHANGED <<variant, op, argVars, data_chunks, params, workers_num,
                 results, resultsBound, wq_results, bi, qi, self_results,
                 ret, exc, connVars, poolVars, opened, txlog, workerTx,
                 lock, snap>>
  /\ UNCHANGED frame
  /\ UNCHANGED callers
  /\ UNCHANGED neo_info

\* the thread of batch b opens its own session on the shared connection
ThreadStart(b) ==
  /\ b \in DOMAIN threads /\ threads[b].st = "spawned"
  /\ openSessions' = openSessions \cup {b}
  /\ opened' = [opened EXCEPT !.workerSessions = @ + 1]
  /\ threads' = [threads EXCEPT ![b].st = "ready"]
  /\ UNCHANGED <<variant, pc, op, argVars, data_chunks, params, workers_num,
                 results, resultsBound, wq_results, bi, qi, self_results,
                 ret, exc, openDrivers, poolVars, txlog, workerTx, lock,
                 snap>>
  /\ UNCHANGED frame
  /\ UNCHANGED callers
  /\ UNCHANGED neo_info

\* the thread runs the write transaction of its next statement on its batch;
\* a failed transaction ends the thread
ThreadTx(b) ==
  /\ b \in DOMAIN threads /\ threads[b].st = "ready"
  /\ LET rows == FillNa(data_chunks[b])
         q == threads[b].q IN
     \E outcome \in TxOutcomes :
       /\ workerTx' = [workerTx EXCEPT
                         ![<<q, b>>] = Append(@, TxRecord(q, b, rows, outcome, b))]
       /\ IF outcome = "ok"
          THEN /\ threads' = [threads EXCEPT ![b].st = "counted"]
               /\ UNCHANGED openSessions
          ELSE /\ threads' = [threads EXCEPT ![b].st = "failed"]
               /\ openSessions' = openSessions \ {b}
  /\ UNCHANGED <<variant, pc, op, argVars, data_chunks, params, workers_num,
                 results, resultsBound, wq_results, bi, qi, self_results,
                 ret, exc, openDrivers, poolVars, opened, txlog, lock, snap>>
  /\ UNCHANGED frame
  /\ UNCHANGED callers
  /\ UNCHANGED neo_info

\* the mutual-exclusion lock of the Aggregate Result
LockFreeAlways(l) == TRUE

LockFree(l) == l = 0

\* the thread takes the lock and reads the Aggregate Result
MergeBegin(b) ==
  /\ b \in DOMAIN threads /\ threads[b].st = "counted"
  /\ LockFree(lock)
  /\ lock' = b
  /\ snap' = [snap EXCEPT ![b] = self_results]
  /\ threads' = [threads EXCEPT ![b].st = "merging"]
  /\ UNCHANGED <<variant, pc, op, argVars, data_chunks, params, workers_num,
                 results, resultsBound, wq_results, bi, qi, self_results,
                 ret, exc, connVars, poolVars, opened, txlog, workerTx>>
  /\ UNCHANGED frame
  /\ UNCHANGED callers
  /\ UNCHANGED neo_info

\* the thread writes the merged Aggregate Result and releases the lock; after
\* its last statement it closes its session and exits
MergeEnd(b) ==
  /\ b \in DOMAIN threads /\ threads[b].st = "merging"
  /\ self_results' =
        MergeOne(snap[b], workerTx[<<threads[b].q, b>>][1].counters)
  /\ lock' = 0
  /\ snap' = [snap EXCEPT ![b] = EmptyMap]
  /\ IF threads[b].q < Len(queries)
     THEN /\ threads' = [threads EXCEPT ![b] = [st |-> "ready", q |-> @.q + 1]]
          /\ UNCHANGED openSessions
     ELSE /\ threads' = [threads EXCEPT ![b].st = "done"]
          /\ openSessions' = openSessions \ {b}
  /\ UNCHANGED <<variant, pc, op, argVars, data_chunks, params, workers_num,
                 results, resultsBound, wq_results, bi, qi, ret, exc,
                 openDrivers, poolVars, opened, txlog, workerTx>>
  /\ UNCHANGED frame
  /\ UNCHANGED callers
  /\ UNCHANGED neo_info

\* the orchestrator has joined every thread of the wave
JoinedNoWait(ths) == TRUE

Joined(ths) == \A b \in DOMAIN ths : ths[b].st \in {"done", "failed"}

\* the orchestrator joins the wave, closes the shared connection and hands
\* back the Aggregate Result, or the failure of a worker
ThreadedJoin ==
  /\ pc = "thr_join"
  /\ Joined(threads)
  /\ openDrivers' = openDrivers \ {0}
  /\ IF \E b \in DOMAIN threads : threads[b].st = "failed"
     THEN /\ pc' = "raised"
          /\ \E b \in DOMAIN threads :
               /\ threads[b].st = "failed"
               /\ exc' = workerTx[<<threads[b].q, b>>][1].outcome
          /\ self_results' = Cleared(self_results)
          /\ UNCHANGED ret
     ELSE /\ pc' = "returned"
          /\ ret' = self_results
          /\ self_results' = Cleared(self_results)
          /\ UNCHANGED exc
  /\ UNCHANGED <<variant, op, argVars, data_chunks, params, workers_num,
                 results, resultsBound, wq_results, bi, qi, openSessions,
                 poolVars, opened, txlog, workerTx, threadVars>>
  /\ UNCHANGED frame
  /\ UNCHANGED callers
  /\ UNCHANGED neo_info

\* ---------------------------------------------------------- merge and return
\* for result in results: ... self.__results[key] += value
MergeResults ==
  /\ pc = "merge"
  /\ IF resultsBound
     THEN /\ self_results' = MergeAll(self_results, results)
          /\ pc' = "copy"
          /\ UNCHANGED exc
     ELSE \* `results` was never assigned: UnboundLocalError
          /\ pc' = "raised" /\ exc' = "UnboundLocalError"
          /\ UNCHANGED self_results
  /\ UNCHANGED <<variant, op, argVars, data_chunks, params, workers_num,
                 results, resultsBound, wq_results, bi, qi, ret, connVars,
                 poolVars, txlog, workerTx, opened>>
  /\ UNCHANGED threadVars
  /\ UNCHANGED frame
  /\ UNCHANGED callers
  /\ UNCHANGED neo_info

\* results = dict(self.__results.copy()); self.__results.clear(); return results
ReturnResults ==
  /\ pc = "copy"
  /\ ret' = self_results
  /\ self_results' = Cleared(self_results)
  /\ pc' = "returned"
  /\ UNCHANGED <<variant, op, argVars, data_chunks, params, workers_num,
                 results, resultsBound, wq_results, bi, qi, exc, connVars,
                 poolVars, txlog, workerTx, opened>>
  /\ UNCHANGED threadVars
  /\ UNCHANGED frame
  /\ UNCHANGED callers
  /\ UNCHANGED neo_info

\* the caller takes the returned mapping or the exception and goes on
CallerContinue ==
  /\ pc \in {"returned", "raised"}
  /\ pc' = "idle" /\ op' = "none"
  /\ queries' = <<>> /\ data' = <<>> /\ partitions' = 1 /\ parallel' = FALSE
  /\ workers' = <<>> /\ parameters' = <<>>
  /\ data_chunks' = <<>> /\ params' = EmptyMap /\ workers_num' = 0
  /\ resultsBound' = FALSE
  /\ workerTx' = <<>>
  /\ FreshLocals
  /\ exc' = "none"
  /\ UNCHANGED <<variant, self_results, connVars>>
  /\ threads' = <<>> /\ lock' = 0 /\ snap' = <<>>
  /\ frame' = <<>>
  /\ UNCHANGED callers
  /\ UNCHANGED neo_info

\* ====================================== overlapping calls on one instance
\* everything but the frames of the caller threads and self.__results, the
\* one accumulator every call on the instance uses
overlapFrame == <<variant, pc, op, argVars, data_chunks, params, workers_num,
                  results, resultsBound, wq_results, bi, qi, ret, exc,
                  connVars, poolVars, opened, txlog, workerTx, threadVars,
                  frame, neo_info>>

\* the statement lists the overlapping calls pass
OverlapQueryLists == {<<q>> : q \in Queries}

\* thread t calls execute_write_queries_with_data(queries, data, partitions)
\* in sequential mode with arguments the partition check accepts: the data
\* are split and the connection is open
OverlapEnter(t) ==
  \E qs \in OverlapQueryLists, d \in DataFrames, n \in 1..MaxRows :
    /\ callers[t].pc = "idle"
    /\ ~PartitionCheckFails(n, d)
    /\ callers' = [callers EXCEPT ![t] =
                     [IdleCaller EXCEPT !.pc = "seq_loop", !.queries = qs,
                                        !.data_chunks = ArraySplit(d, n),
                                        !.bi = 1, !.qi = 1]]
    /\ UNCHANGED <<self_results, overlapFrame>>

\* results.append(_execute_write(session, query, rows, params)) on thread t
OverlapTx(t) ==
  LET c == callers[t] IN
  /\ c.pc = "seq_loop"
  /\ c.bi <= Len(c.data_chunks)
  /\ LET rows == FillNa(c.data_chunks[c.bi])
         next == SeqAdvance(c.qi, c.bi, Len(c.queries)) IN
     \E outcome \in TxOutcomes :
       callers' = [callers EXCEPT ![t] =
         IF outcome = "ok"
         THEN [c EXCEPT !.results =
                          AppendResult(@, DbCounters(c.queries[c.qi], rows)),
                        !.txlog = Append(@, DbCounters(c.queries[c.qi], rows)),
                        !.qi = next[1], !.bi = next[2]]
         ELSE [c EXCEPT !.pc = "raised",
                        !.exc = WriteExc(variant, outcome)]]
  /\ UNCHANGED <<self_results, overlapFrame>>

\* the loops of thread t are exhausted and its `with` blocks are left
OverlapExit(t) ==
  /\ callers[t].pc = "seq_loop"
  /\ callers[t].bi > Len(callers[t].data_chunks)
  /\ callers' = [callers EXCEPT ![t].pc = "merge"]
  /\ UNCHANGED <<self_results, overlapFrame>>

\* for result in results: ... self.__results[key] += value, on thread t
OverlapMerge(t) ==
  /\ callers[t].pc = "merge"
  /\ self_results' = MergeAll(self_results, callers[t].results)
  /\ callers' = [callers EXCEPT ![t].pc = "copy"]
  /\ UNCHANGED overlapFrame

\* results = dict(self.__results.copy()); self.__results.clear(); return
OverlapReturn(t) ==
  /\ callers[t].pc = "copy"
  /\ callers' = [callers EXCEPT ![t].ret = self_results,
                                ![t].pc = "returned"]
  /\ self_results' = Cleared(self_results)
  /\ UNCHANGED overlapFrame

\* thread t takes the mapping or the exception and may call again
OverlapContinue(t) ==
  /\ callers[t].pc \in {"returned", "raised"}
  /\ callers' = [callers EXCEPT ![t] = IdleCaller]
  /\ UNCHANGED <<self_results, overlapFrame>>

\* ============================================================ construction
\* Neo4jInstance(uri, user, password, **kwargs) is about to run
InitConstruct ==
  /\ variant \in Variants
  /\ pc = "new"
  /\ op = "none"
  /\ queries = <<>> /\ data = <<>> /\ partitions = 1 /\ parallel = FALSE
  /\ workers = <<>> /\ parameters = <<>>
  /\ data_chunks = <<>> /\ params = EmptyMap /\ workers_num = 0
  /\ results = <<>> /\ resultsBound = FALSE
  /\ wq_results = EmptyMap
  /\ bi = 0 /\ qi = 0
  /\ self_results = <<>>
  /\ ret = EmptyMap /\ exc = "none"
  /\ openDrivers = {} /\ openSessions = {}
  /\ poolOpen = FALSE /\ tasks = <<>> /\ taskRet = <<>> /\ poolErr = "none"
  /\ poolCause = "none"
  /\ opened = NoneOpened
  /\ txlog = <<>> /\ workerTx = <<>>
  /\ threads = <<>> /\ lock = 0 /\ snap = <<>>
  /\ frame \in ConstructorArgs
  /\ callers = NoCallers
  /\ neo_info = <<>>

\* __init__: the four entries of self.neo_info and the empty accumulator
\* are stored; no connection is made
Construct ==
  /\ pc = "new"
  /\ neo_info' = [uri |-> frame.uri, user |-> frame.user,
                  password |-> frame.password,
                  encrypted |-> EncryptedOrEmpty(frame.encrypted)]
  /\ self_results' = EmptyMap
  /\ frame' = <<>>
  /\ pc' = "idle"
  /\ UNCHANGED <<variant, op, argVars, data_chunks, params, workers_num,
                 results, resultsBound, wq_results, bi, qi, ret, exc,
                 connVars, poolVars, opened, txlog, workerTx, threadVars,
                 callers>>

\* ========================================================= helper functions
\* everything of the engine a helper function leaves alone
engineVars == <<variant, argVars, data_chunks, params, workers_num, results,
                resultsBound, wq_results, bi, qi, self_results, connVars,
                poolVars, opened, txlog, workerTx, threadVars, callers,
                neo_info>>

\* ---------------------------------------------------------- is_reachable_url
\* a url: its scheme ("none": no scheme at all), what is at the other end,
\* and the status an HTTP server that answers sends
Schemes == {"file", "http", "none"}
Targets == {"present", "absent", "unreachable"}
HttpStatus == {200, 404, 500}
Urls == [scheme : Schemes, target : Targets, status : HttpStatus]

\* urlopen(url): the response, or the exception raised; only HTTPError
\* carries a status code
urlopen(u) ==
  IF u.scheme = "none" THEN [raises |-> "ValueError"]
  ELSE IF u.target # "present" THEN [raises |-> "URLError"]
  ELSE IF u.scheme = "http" /\ u.status # 200
       THEN [raises |-> "HTTPError", code |-> u.status]
  ELSE [raises |-> "none"]

\* code = None is modelled as status 0
NoCode == 0

is_reachable_url ==
  \E u \in Urls :
    /\ Between
    /\ op' = "is_reachable_url"
    /\ frame' = [url |-> u, code |-> NoCode]
    /\ pc' = "url_open"
    /\ UNCHANGED <<ret, exc, engineVars>>

\* try: with urlopen(url): code = 200
\* except (HTTPError, URLError) as error: code = error.code
UrlOpen ==
  /\ pc = "url_open"
  /\ LET error == urlopen(frame.url) IN
       CASE error.raises = "none" ->
              /\ frame' = [frame EXCEPT !.code = 200]
              /\ pc' = "url_return" /\ UNCHANGED exc
         [] error.raises \in {"HTTPError", "URLError"} ->
              IF "code" \in DOMAIN error
              THEN /\ frame' = [frame EXCEPT !.code = error.code]
                   /\ pc' = "url_return" /\ UNCHANGED exc
              ELSE /\ pc' = "raised" /\ exc' = "AttributeError"
                   /\ UNCHANGED frame
         [] OTHER ->
              /\ pc' = "raised" /\ exc' = error.raises
              /\ UNCHANGED frame
  /\ UNCHANGED <<op, ret, engineVars>>

\* return code == 200
UrlReturn ==
  /\ pc = "url_return"
  /\ ret' = (frame.code = 200)
  /\ pc' = "returned"
  /\ UNCHANGED <<op, exc, frame, engineVars>>

\* ------------------------------------------------- fileload: required keys
MaxKeys == 2
KeyNames == {"id", "ID", "uri"}

\* str.lower()
Lower(key) == IF key = "ID" THEN "id" ELSE key

KeyLists == UNION {[1..n -> KeyNames] : n \in 0..MaxKeys}

\* a parsed YAML mapping: its (key, value) pairs in file order, keys distinct
YamlMappings ==
  {m \in UNION {[1..n -> KeyNames \X (1..2)] : n \in 0..MaxKeys} :
     \A i, j \in 1..Len(m) : m[i][1] = m[j][1] => i = j}

\* the file at the path: absent, not YAML, or a mapping
YamlFiles ==
  {[state |-> "missing"], [state |-> "malformed"]} \cup
  {[state |-> "mapping", pairs |-> m] : m \in YamlMappings}

RECURSIVE DictSet(_, _, _)
\* d[key] = value on an insertion-ordered dict
DictSet(d, key, value) ==
  IF d = <<>> THEN << <<key, value>> >>
  ELSE IF Head(d)[1] = key THEN << <<key, value>> >> \o Tail(d)
  ELSE <<Head(d)>> \o DictSet(Tail(d), key, value)

RECURSIVE DictOf(_, _)
\* dict(pairs) applied on top of d
DictOf(d, pairs) ==
  IF pairs = <<>> THEN d
  ELSE DictOf(DictSet(d, Head(pairs)[1], Head(pairs)[2]), Tail(pairs))

\* lower_keys = [key.lower() for key in dictionary.keys()]
\* return dict(zip(lower_keys, dictionary.values()))
lower_dict_keys(dictionary) ==
  DictOf(<<>>, [i \in 1..Len(dictionary) |->
                 <<Lower(dictionary[i][1]), dictionary[i][2]>>])

DictKeys(d) == [i \in 1..Len(d) |-> d[i][1]]

In(key, keys) == \E i \in 1..Len(keys) : keys[i] = key

check_required_keys_reversed(required_keys, keys) ==
  LET missing_keys == SelectSeq(required_keys, LAMBDA key : ~In(key, keys)) IN
  [i \in 1..Len(missing_keys) |-> missing_keys[Len(missing_keys) + 1 - i]]

\* missing_keys = [key for key in required_keys if key not in keys]
check_required_keys(required_keys, keys) ==
  SelectSeq(required_keys, LAMBDA key : ~In(key, keys))

\* a direct call of check_required_keys(required_keys, keys)
CheckRequiredKeys ==
  \E r \in KeyLists, k \in KeyLists :
    /\ Between
    /\ op' = "check_required_keys"
    /\ frame' = [required_keys |-> r, keys |-> k]
    /\ ret' = check_required_keys(r, k)
    /\ pc' = "returned"
    /\ UNCHANGED <<exc, engineVars>>

\* load_yaml_file(yaml_file, required_keys): None and [] take the same path
load_yaml_file ==
  \E f \in YamlFiles, r \in KeyLists :
    /\ Between
    /\ op' = "load_yaml_file"
    /\ frame' = [yaml_file |-> f, required_keys |-> r,
                 configuration_object |-> <<>>]
    /\ pc' = "yaml_open"
    /\ UNCHANGED <<ret, exc, engineVars>>

\* with open(yaml_file) as config_file:
\*     configuration_object = lower_dict_keys(yaml.load(config_file, ...))
YamlOpen ==
  /\ pc = "yaml_open"
  /\ CASE frame.yaml_file.state = "missing" ->
            /\ pc' = "raised" /\ exc' = "FileNotFoundError"
            /\ UNCHANGED frame
       [] frame.yaml_file.state = "malformed" ->
            /\ pc' = "raised" /\ exc' = "ParserError"
            /\ UNCHANGED frame
       [] OTHER ->
            /\ frame' = [frame EXCEPT !.configuration_object =
                                        lower_dict_keys(frame.yaml_file.pairs)]
            /\ pc' = "yaml_check" /\ UNCHANGED exc
  /\ UNCHANGED <<op, ret, engineVars>>

\* if required_keys: missing_keys = check_required_keys(required_keys,
\* config_keys); if len(missing_keys) > 0: raise ValueError(...)
\* return configuration_object
YamlCheck ==
  /\ pc = "yaml_check"
  /\ LET config_keys == DictKeys(frame.configuration_object)
         missing_keys == IF frame.required_keys # <<>>
                         THEN check_required_keys(frame.required_keys,
                                                  config_keys)
                         ELSE <<>> IN
       IF Len(missing_keys) > 0
       THEN /\ pc' = "raised" /\ exc' = "ValueError"
            /\ UNCHANGED ret
       ELSE /\ ret' = frame.configuration_object
            /\ pc' = "returned" /\ UNCHANGED exc
  /\ UNCHANGED <<op, frame, engineVars>>

\* ================================================================== claims
Keys == {"nodes_created", "properties_set", "constraints_added",
         "_contains_updates"}

RECURSIVE WorkerTxFrom(_, _)
WorkerTxFrom(q, b) ==
  IF q > Len(queries) THEN <<>>
  ELSE IF b > Len(data_chunks) THEN WorkerTxFrom(q + 1, 1)
  ELSE workerTx[<<q, b>>] \o WorkerTxFrom(q, b + 1)

\* every write transaction attempted in the current call
AllTx == txlog \o (IF workerTx = <<>> THEN <<>> ELSE WorkerTxFrom(1, 1))

RECURSIVE SumKey(_, _)
SumKey(txs, k) ==
  IF txs = <<>> THEN 0 ELSE Get(Head(txs).counters, k) + SumKey(Tail(txs), k)

FailedTx == LET txs == AllTx IN {i \in 1..Len(txs) : txs[i].outcome # "ok"}

Returned == pc = "returned"
Raised == pc = "raised"
NoConnection == openDrivers = {} /\ openSessions = {} /\ ~poolOpen

\* C1: a partition count above the row count makes both with-data
\* operations fail with ValueError in either mode, with no driver, session,
\* pool or transaction created and the instance state untouched.
C1_InvalidPartitionCountFailsFirst ==
  (op \in DataOps /\ partitions > Shape0(data)) =>
     /\ Raised /\ exc = "ValueError"
     /\ AllTx = <<>>
     /\ NoConnection
     /\ self_results = EmptyMap
     /\ data_chunks = <<>> /\ ret = EmptyMap

C1_Witness ==
  /\ op = "execute_write_query_with_data" /\ parallel
  /\ Shape0(data) >= 1 /\ partitions = Shape0(data) + 1
  /\ Raised /\ exc = "ValueError"

\* C2: a successful write call returns, key by key, the sum of the counters
\* of all the transactions of that call.
C2_ReturnedIsSumOfAllTransactions ==
  (Returned /\ op \in DataOps \cup PlainOps) =>
     LET txs == AllTx IN
     \A k \in Keys \ {"_contains_updates"} : Get(ret, k) = SumKey(txs, k)

\* what the sequential strategy returns for the arguments of the current call
RECURSIVE SequentialResults(_, _)
SequentialResults(b, q) ==
  IF b > Len(data_chunks) \/ queries = <<>> THEN <<>>
  ELSE <<DbCounters(queries[q], FillNa(data_chunks[b]))>>
       \o SequentialResults(SeqAdvance(q, b, Len(queries))[2],
                            SeqAdvance(q, b, Len(queries))[1])

SequentialReturn == MergeAll(EmptyMap, SequentialResults(1, 1))

\* the sequential strategy returns SequentialReturn
SequentialReturnIsRight ==
  (Returned /\ op \in DataOps /\ ~parallel) => ret = SequentialReturn

\* C3: with parallel=True the call returns the mapping it returns with
\* parallel=False for the same dataset, statements, partitions and counters.
C3_ParallelEqualsSequential ==
  (Returned /\ op \in DataOps /\ parallel) => ret = SequentialReturn

\* C4: between calls, and from the start of a call until its merge, the
\* instance accumulator is empty, and a returned mapping holds nothing but
\* counters of the transactions of its own call.
C4_AccumulatorEmptyBetweenCalls ==
  /\ pc # "copy" => self_results = EmptyMap
  /\ (Returned /\ op \in DataOps) =>
        /\ DOMAIN ret \subseteq Keys
        /\ LET txs == AllTx IN \A k \in DOMAIN ret : ret[k] <= SumKey(txs, k)

C4_Witness ==
  /\ Returned /\ op \in DataOps
  /\ ret # EmptyMap /\ self_results = EmptyMap

\* C5: once a transaction of a write call has failed, the call never comes
\* to its return: it raises (at the pool join in parallel mode) and hands no
\* mapping to the caller.
C5_FailedTransactionNeverReturns ==
  FailedTx # {} =>
     /\ Raised \/ (pc = "par_pool" /\ poolErr # "none")
     /\ ret = EmptyMap

C5_Witness ==
  /\ Raised /\ parallel /\ FailedTx # {}
  /\ LET txs == AllTx IN \E i \in 1..Len(txs) : txs[i].outcome = "ok"

\* C6: a transaction failing with ServiceUnavailable or ClientError reaches
\* the caller as an error of that same kind: from the caller's own
\* transaction in the sequential path, and in the parallel path from the
\* worker whose exception the pool re-raises.
C6_FailureKindReachesCaller ==
  /\ (Raised /\ txlog # <<>> /\ txlog[Len(txlog)].outcome # "ok") =>
        exc = txlog[Len(txlog)].outcome
  /\ (Raised /\ poolCause \in TxOutcomes) => exc = poolCause

\* C7: no (statement, batch) pair is attempted twice in a call; in the
\* caller's own loop every transaction before the last one committed, the
\* pairs were attempted in loop order, and nothing follows a failed one.
PairBefore(t, u) == t.b < u.b \/ (t.b = u.b /\ t.q < u.q)

C7_NoRetryNoRollback ==
  /\ LET txs == AllTx IN
     \A i, j \in 1..Len(txs) :
        i # j => <<txs[i].q, txs[i].b>> # <<txs[j].q, txs[j].b>>
  /\ \A i \in 1..Len(txlog) :
        /\ i < Len(txlog) => txlog[i].outcome = "ok"
        /\ i < Len(txlog) => PairBefore(txlog[i], txlog[i + 1])
  /\ (FailedTx # {} /\ ~parallel) => Raised

C7_Witness ==
  /\ Raised /\ ~parallel /\ op \in DataOps
  /\ Len(txlog) >= 3
  /\ txlog[Len(txlog)].outcome # "ok"
  /\ txlog[1].outcome = "ok"

\* C8: for 1 <= N <= R partitioning yields exactly N batches whose sizes sum
\* to R and differ pairwise by at most 1.
RECURSIVE SumLen(_)
SumLen(chunks) ==
  IF chunks = <<>> THEN 0 ELSE Len(Head(chunks)) + SumLen(Tail(chunks))

C8_BalancedPartition ==
  (op \in DataOps /\ 1 <= partitions /\ partitions <= Shape0(data)) =>
     /\ Len(data_chunks) = partitions
     /\ SumLen(data_chunks) = Shape0(data)
     /\ \A i, j \in 1..Len(data_chunks) :
           Len(data_chunks[i]) - Len(data_chunks[j]) <= 1

C8_Witness ==
  /\ op \in DataOps /\ Shape0(data) = 3 /\ partitions = 2
  /\ Len(data_chunks) = 2
  /\ Len(data_chunks[1]) = 2 /\ Len(data_chunks[2]) = 1

\* C9: the batches, concatenated in partition order, are the original row
\* sequence: no row is dropped, duplicated or moved.
RECURSIVE Concat(_)
Concat(chunks) ==
  IF chunks = <<>> THEN <<>> ELSE Head(chunks) \o Concat(Tail(chunks))

C9_PartitionKeepsRows ==
  (op \in DataOps /\ 1 <= partitions /\ partitions <= Shape0(data)) =>
     Concat(data_chunks) = data

C9_Witness ==
  /\ op \in DataOps /\ Shape0(data) = 3 /\ partitions = 3
  /\ Concat(data_chunks) = data
  /\ data_chunks[2] = <<data[2]>>

\* C10: past the partition-count check every batch has at least one row, and
\* every transaction of a with-data call carries a non-empty `rows`.
C10_NoEmptyBatch ==
  op \in DataOps =>
     /\ \A b \in 1..Len(data_chunks) : Len(data_chunks[b]) >= 1
     /\ LET txs == AllTx IN \A i \in 1..Len(txs) : Len(txs[i].rows) >= 1

C10_Witness ==
  /\ op \in DataOps /\ Returned
  /\ partitions = Shape0(data) /\ partitions >= 2
  /\ LET txs == AllTx IN
       /\ Len(txs) >= partitions
       /\ \A i \in 1..Len(txs) : Len(txs[i].rows) = 1

\* C11: the mapping returned by execute_write_queries, execute_write_query,
\* execute_write_queries_with_data and execute_write_query_with_data never
\* has the key _contains_updates, in either mode, whatever the database
\* reported.
C11_NoContainsUpdatesKey ==
  (Returned /\ op \in DataOps \cup PlainOps) =>
     "_contains_updates" \notin DOMAIN ret

C11_Witness ==
  /\ Returned /\ op \in DataOps /\ parallel
  /\ ret # EmptyMap /\ "_contains_updates" \notin DOMAIN ret
  /\ LET txs == AllTx IN
       \E i \in 1..Len(txs) : "_contains_updates" \in DOMAIN txs[i].counters

\* C12: in every batch sent to the database, in sequential and in parallel
\* mode, no cell is null: a cell missing in the dataset is the empty string
\* and every other cell is the dataset's.
C12_NoNullTransmitted ==
  op \in DataOps =>
     LET txs == AllTx IN
     \A i \in 1..Len(txs) :
        /\ Len(txs[i].rows) = Len(data_chunks[txs[i].b])
        /\ \A r \in 1..Len(txs[i].rows) :
              LET sent == txs[i].rows[r]
                  cell == data_chunks[txs[i].b][r] IN
              /\ sent.name # NULL
              /\ sent.id = cell.id
              /\ sent.name = IF cell.name = NULL THEN "" ELSE cell.name

C12_Witness ==
  /\ op \in DataOps /\ parallel
  /\ \E r \in 1..Len(data) : data[r].name = NULL
  /\ LET txs == AllTx IN
       \E i \in 1..Len(txs) :
          \E r \in 1..Len(txs[i].rows) : txs[i].rows[r].name = ""

\* C13: once execute_read_query, execute_write_queries or a with-data
\* operation, in either mode, has returned or raised, every session and
\* every driver opened during the call is closed and the pool is gone, also
\* when a transaction failed.
C13_EverythingClosedAfterCall ==
  pc \in {"returned", "raised", "idle"} => NoConnection

C13_Witness ==
  /\ Raised /\ op = "execute_read_query"
  /\ exc = "ClientError"
  /\ opened.callerDrivers = 1 /\ opened.callerSessions = 1
  /\ NoConnection

\* C14: a with-data call that returns has run exactly |Q| x N write
\* transactions, one per (statement, batch) pair, each committed and each
\* carrying the whole batch as `rows` next to the scalar parameters: the
\* number of transactions does not depend on the number of rows.
C14_OneTransactionPerPair ==
  (Returned /\ op \in DataOps) =>
     LET txs == AllTx IN
     /\ Len(txs) = Len(queries) * partitions
     /\ \A q \in 1..Len(queries), b \in 1..partitions :
           \E i \in 1..Len(txs) :
              /\ txs[i].q = q /\ txs[i].b = b
              /\ txs[i].query = queries[q]
              /\ txs[i].outcome = "ok"
              /\ Len(txs[i].rows) = Len(data_chunks[b])
              /\ \A r \in 1..Len(data_chunks[b]) :
                    txs[i].rows[r].id = data_chunks[b][r].id
              /\ txs[i].params = (IF parameters = <<>> THEN EmptyMap
                                  ELSE parameters[1])

C14_Witness ==
  /\ Returned /\ op \in DataOps /\ ~parallel
  /\ Len(queries) = 2 /\ partitions = 2 /\ Shape0(data) = 3
  /\ Len(AllTx) = 4
  /\ Len(AllTx[1].rows) = 2

\* C15: in sequential mode a with-data call opens one driver and one
\* session, no worker and no pool, runs every transaction on that session,
\* one after the other, in batch-major order: all the statements on batch i,
\* in list order, before any statement on batch i + 1.
C15_SequentialOneSessionBatchMajor ==
  (op \in DataOps /\ ~parallel) =>
     /\ opened.callerDrivers <= 1 /\ opened.callerSessions <= 1
     /\ opened.workerDrivers = 0 /\ opened.workerSessions = 0
     /\ ~poolOpen /\ workerTx = <<>>
     /\ (txlog # <<>> \/ Returned) =>
           opened.callerDrivers = 1 /\ opened.callerSessions = 1
     /\ \A i \in 1..Len(txlog) :
           /\ txlog[i].owner = 0
           /\ txlog[i].b = ((i - 1) \div Len(queries)) + 1
           /\ txlog[i].q = ((i - 1) % Len(queries)) + 1
           /\ i < Len(txlog) => txlog[i].outcome = "ok"
           /\ (i = Len(txlog) /\ pc = "seq_loop") => 0 \in openSessions

C15_Witness ==
  /\ Returned /\ op \in DataOps /\ ~parallel
  /\ Len(queries) = 2 /\ partitions = 3
  /\ Len(txlog) = 6
  /\ <<txlog[2].q, txlog[2].b>> = <<2, 1>>
  /\ <<txlog[3].q, txlog[3].b>> = <<1, 2>>
  /\ opened.callerSessions = 1

\* the transaction of statement q on batch b has started / has committed
WorkerTxStarted(q, b) ==
  \/ workerTx[<<q, b>>] # <<>>
  \/ (pc = "par_pool" /\ qi = q /\ b \in Running)

WorkerTxCommitted(q, b) ==
  /\ Len(workerTx[<<q, b>>]) = 1
  /\ workerTx[<<q, b>>][1].outcome = "ok"
  /\ ~(pc = "par_pool" /\ qi = q /\ b \in Running)

\* C16: in parallel mode the statements reach every batch in list order:
\* for every batch b and statements q_i before q_j, the transaction of q_i
\* on b has completed before the transaction of q_j on b starts.
C16_StatementsOrderedPerBatch ==
  (op \in DataOps /\ parallel /\ workerTx # <<>>) =>
     \A b \in 1..Len(data_chunks) :
        \A qa, qb \in 1..Len(queries) :
           (qa < qb /\ WorkerTxStarted(qb, b)) => WorkerTxCommitted(qa, b)

C16_Witness ==
  /\ op \in DataOps /\ parallel /\ Len(queries) = 2 /\ partitions >= 2
  /\ pc = "par_pool" /\ qi = 2
  /\ 2 \in Running /\ workerTx[<<2, 2>>] = <<>>
  /\ WorkerTxCommitted(1, 2)

\* the workers that have entered their task and not yet handed back
WorkersInFlight == (openDrivers \cup openSessions \cup Running) \ {0}

\* C17: in parallel mode nothing is added to the instance accumulator while
\* a dispatched worker is running: the merge starts after every worker of
\* every statement has handed back and the last pool is gone.
C17_MergeAfterEveryWorker ==
  (op \in DataOps /\ parallel) =>
     /\ (WorkersInFlight # {} \/ poolOpen \/ pc \in {"par_next", "par_pool"}) =>
           self_results = EmptyMap
     /\ (self_results # EmptyMap \/ pc \in {"merge", "copy"}) =>
           /\ WorkersInFlight = {} /\ ~poolOpen /\ tasks = <<>>
           /\ qi = Len(queries)
           /\ Len(AllTx) = opened.workerSessions

C17_Witness ==
  /\ op \in DataOps /\ parallel /\ pc = "copy"
  /\ self_results # EmptyMap
  /\ partitions >= 2 /\ opened.workerSessions >= 2
  /\ WorkersInFlight = {}

\* C18: in parallel mode the call neither returns nor raises while a
\* dispatched worker is executing: when starmap hands back, also with the
\* exception of a failed worker, every worker that entered its task has
\* finished its transaction and closed its session and driver, and the pool
\* is gone.
C18_NoWorkerOutlivesCall ==
  (op \in DataOps /\ parallel /\ pc \in {"returned", "raised"}) =>
     /\ WorkersInFlight = {}
     /\ tasks = <<>> /\ ~poolOpen
     /\ Len(AllTx) = opened.workerSessions
     /\ opened.workerDrivers = opened.workerSessions

C18_Witness ==
  /\ op \in DataOps /\ parallel /\ Raised
  /\ poolCause \in TxOutcomes
  /\ partitions >= 2
  /\ workerTx[<<qi, 1>>] # <<>> /\ workerTx[<<qi, 1>>][1].outcome = "failed"
  /\ workerTx[<<qi, 2>>] # <<>> /\ workerTx[<<qi, 2>>][1].outcome = "ok"
  /\ WorkersInFlight = {}

\* C19: in parallel mode every worker task opens a driver and a session of
\* its own and closes them itself, no driver or session serves two tasks,
\* the caller opens none and runs no transaction, and the workers touch no
\* state of the caller: their counters reach it as the values starmap
\* returns.
C19_WorkersAreIsolated ==
  (op \in DataOps /\ parallel) =>
     /\ opened.callerDrivers = 0 /\ opened.callerSessions = 0
     /\ txlog = <<>>
     /\ 0 \notin openDrivers \cup openSessions
     /\ openDrivers = Running /\ openSessions = Running
     /\ opened.workerDrivers = opened.workerSessions
     /\ opened.workerSessions = Len(AllTx) + Cardinality(Running)
     /\ LET txs == AllTx IN
        \A i \in 1..Len(txs) : txs[i].owner = txs[i].b
     /\ pc = "par_pool" =>
           /\ self_results = EmptyMap
           /\ \A b \in DOMAIN tasks :
                 taskRet[b] = IF tasks[b] = "ok"
                              THEN workerTx[<<qi, b>>][1].counters
                              ELSE EmptyMap
     /\ (pc = "par_next" /\ resultsBound) =>
           results = [b \in 1..Len(data_chunks) |->
                        workerTx[<<qi, b>>][1].counters]

C19_Witness ==
  /\ op \in DataOps /\ parallel /\ pc = "par_pool"
  /\ Running = {1, 2}
  /\ openDrivers = {1, 2} /\ openSessions = {1, 2}
  /\ opened.callerDrivers = 0

\* C20: the size of the worker pool is the `workers` argument when
\* 1 <= workers <= number of execution units, and the number of execution
\* units otherwise (None, zero, negative, too large): it is always between 1
\* and the number of execution units.
C20_WorkerCountSelection ==
  (op \in DataOps /\ parallel /\ data_chunks # <<>>) =>
     /\ 1 <= workers_num /\ workers_num <= CpuCount
     /\ (workers # <<>> /\ 1 <= workers[1] /\ workers[1] <= CpuCount) =>
           workers_num = workers[1]
     /\ (workers = <<>> \/ workers[1] < 1 \/ workers[1] > CpuCount) =>
           workers_num = CpuCount

C20_Witness ==
  /\ op \in DataOps /\ parallel /\ pc = "par_pool"
  /\ workers # <<>> /\ workers[1] > CpuCount
  /\ workers_num = CpuCount
  /\ Cardinality(Running) = 2

\* C21: in parallel mode the worker transactions in flight never exceed the
\* selected worker count, whatever the number of batches; a batch beyond
\* the pool size stays pending until a worker is free, and every batch of
\* the pool is taken and brought to its end.
C21_PoolBoundsWorkersInFlight ==
  /\ [](/\ Cardinality(Running) <= workers_num
        /\ Cardinality(openSessions) <= workers_num
        /\ \A b \in DOMAIN tasks :
              (tasks[b] = "pending" /\ Cardinality(Running) = workers_num) =>
                 ~ENABLED TaskStart(b))
  /\ \A b \in 1..(MaxRows + 1) :
        (pc = "par_pool" /\ b \in DOMAIN tasks /\ tasks[b] = "pending") ~>
           (pc = "par_pool" /\ b \in DOMAIN tasks
              /\ tasks[b] \in {"ok", "failed"})

C21_Witness ==
  /\ pc = "par_pool" /\ workers_num = 1 /\ partitions = 3
  /\ tasks = <<"ok", "running", "pending">>
  /\ workerTx[<<1, 1>>] # <<>> /\ workerTx[<<1, 3>>] = <<>>

\* C22: a with-data call uses one strategy: with parallel=True the caller
\* opens no driver and no session and runs no transaction itself; with
\* parallel=False no pool and no worker is created and the caller opens at
\* most one driver and one session.
C22_OneStrategyPerCall ==
  /\ (op \in DataOps /\ parallel) =>
        /\ opened.callerDrivers = 0 /\ opened.callerSessions = 0
        /\ txlog = <<>>
        /\ pc \notin {"seq_driver", "seq_session", "seq_loop"}
  /\ (op \in DataOps /\ ~parallel) =>
        /\ opened.pools = 0 /\ ~poolOpen /\ tasks = <<>>
        /\ opened.workerDrivers = 0 /\ opened.workerSessions = 0
        /\ workerTx = <<>>
        /\ opened.callerDrivers <= 1 /\ opened.callerSessions <= 1
        /\ pc \notin {"par_next", "par_pool"}

C22_Witness ==
  /\ Returned /\ op \in DataOps /\ parallel
  /\ opened.pools = 2 /\ opened.workerSessions >= 4
  /\ opened.callerSessions = 0 /\ txlog = <<>>

Threaded == op = "execute_write_queries_with_data_threaded"

\* C23: in threaded mode there is one worker thread per batch, each with a
\* session of its own on the one shared connection; the wave is spawned
\* completely before the join, and the call returns or raises only after
\* every spawned thread has finished and closed its session.
C23_ThreadedJoinsEveryWorker ==
  Threaded =>
     /\ Len(threads) <= Len(data_chunks)
     /\ opened.callerDrivers <= 1 /\ opened.workerDrivers = 0
     /\ openSessions =
           {b \in DOMAIN threads : threads[b].st \in {"ready", "counted", "merging"}}
     /\ openSessions # {} => openDrivers = {0}
     /\ opened.workerSessions =
           Cardinality({b \in DOMAIN threads : threads[b].st # "spawned"})
     /\ pc = "thr_join" => Len(threads) = Len(data_chunks)
     /\ (Returned \/ (Raised /\ opened.callerDrivers = 1)) =>
           /\ Len(threads) = Len(data_chunks)
           /\ \A b \in DOMAIN threads : threads[b].st \in {"done", "failed"}
           /\ NoConnection

C23_Witness ==
  /\ Threaded /\ Returned /\ partitions = 3
  /\ Len(threads) = 3 /\ opened.workerSessions = 3
  /\ \A b \in DOMAIN threads : threads[b].st = "done"
  /\ NoConnection

\* C24: in threaded mode a thread holds the lock exactly while it merges,
\* one thread at a time, and no update is lost: whatever the interleaving,
\* the totals handed back are the sums of the counters of all the workers'
\* transactions.
C24_LockedMergeLosesNothing ==
  Threaded =>
     /\ \A b \in DOMAIN threads : threads[b].st = "merging" <=> lock = b
     /\ lock # 0 => lock \in DOMAIN threads
     /\ Returned =>
           LET txs == AllTx IN
           /\ Len(txs) = Len(queries) * partitions
           /\ \A k \in Keys \ {"_contains_updates"} :
                 Get(ret, k) = SumKey(txs, k)

C24_Witness ==
  /\ Threaded /\ pc = "thr_join" /\ partitions >= 2
  /\ lock = 1 /\ threads[1].st = "merging"
  /\ threads[2].st = "counted"
  /\ self_results # EmptyMap

AllZero(rs) == \A i \in 1..Len(rs) : \A k \in DOMAIN rs[i] : rs[i][k] = 0

\* C26 as stated: merging an all-zero counter map into a running total
\* leaves the mapping as it was, same keys and same values.
C26_ZeroMergeKeepsMapping ==
  [][(pc = "merge" /\ resultsBound /\ AllZero(results)) =>
        self_results' = self_results]_vars

\* C26 amended: merging an all-zero counter map leaves the value of every
\* counter as it was, a key missing from the total counting as zero; the
\* keys of the zero map other than _contains_updates that the total did not
\* have are added to it with value 0, and no other key is.
C26_ZeroMergeKeepsValues ==
  [][(pc = "merge" /\ resultsBound /\ AllZero(results)) =>
        /\ \A k \in CounterNames \cup {"_contains_updates"} :
              Get(self_results', k) = Get(self_results, k)
        /\ DOMAIN self_results' =
              (DOMAIN self_results) \cup
              (UNION {DOMAIN results[i] : i \in 1..Len(results)}
                 \ {"_contains_updates"})
        /\ (UNION {DOMAIN results[i] : i \in 1..Len(results)}
               \ {"_contains_updates"}) \subseteq DOMAIN self_results =>
              self_results' = self_results]_vars

C26_Witness ==
  /\ pc = "copy" /\ AllZero(results)
  /\ DOMAIN results[1] = {"nodes_created", "_contains_updates"}
  /\ DOMAIN self_results = {"nodes_created", "properties_set"}
  /\ self_results.properties_set = 1 /\ self_results.nodes_created = 0

\* what execute_write_queries returns for the statements of the current call
RECURSIVE PlainResults(_)
PlainResults(q) ==
  IF q > Len(queries) THEN <<>>
  ELSE <<DbCounters(queries[q], <<>>)>> \o PlainResults(q + 1)

SingleOps == {"execute_write_query", "execute_write_query_with_data"}

\* C27: execute_write_query and execute_write_query_with_data are the plural
\* operations on the one-element list: the list is the statement alone, the
\* transactions carry the caller's parameters, there is one transaction per
\* batch (one in all without data), and the mapping returned is the one the
\* plural operation returns for that list.
C27_SingleIsPluralOfOne ==
  op \in SingleOps =>
     LET txs == AllTx
         given == IF parameters = <<>> THEN EmptyMap ELSE parameters[1]
         batches == IF op = "execute_write_query" THEN 1
                    ELSE Len(data_chunks) IN
     /\ Len(queries) = 1 /\ queries[1] \in Queries
     /\ pc # "raised" => params = given
     /\ \A i \in 1..Len(txs) :
           /\ txs[i].q = 1 /\ txs[i].query = queries[1]
           /\ txs[i].params = given
     /\ Len(txs) <= batches
     /\ Returned =>
           /\ Len(txs) = batches
           /\ op = "execute_write_query" =>
                 ret = MergeAll(EmptyMap, PlainResults(1))
           /\ op = "execute_write_query_with_data" => ret = SequentialReturn

C27_Witness ==
  /\ op = "execute_write_query_with_data" /\ Returned /\ parallel
  /\ partitions = 1 /\ parameters = <<[id |-> 1]>>
  /\ Len(AllTx) = 1 /\ AllTx[1].params = [id |-> 1]
  /\ ret = SequentialReturn /\ ret # EmptyMap

\* C28: execute_read_query runs exactly one read transaction, for the given
\* statement with the caller's parameters bound, and no write transaction;
\* the table it returns has the database's column names and the database's
\* rows in the database's order, so a statement selecting on a bound
\* parameter and yielding one row returns that value in its first row.
C28_ReadQueryOneTransaction ==
  op = "execute_read_query" =>
     LET given == IF parameters = <<>> THEN EmptyMap ELSE parameters[1]
         keys == DbKeys(queries[1])
         values == DbValues(queries[1], given)
         reads == opened.reads IN
     /\ Len(reads) <= 1 /\ AllTx = <<>>
     /\ \A i \in 1..Len(reads) :
           /\ reads[i].query = queries[1] /\ reads[i].params = given
           /\ reads[i].access = "READ"
     /\ Returned =>
           /\ Len(reads) = 1 /\ reads[1].outcome = "ok"
           /\ ret.columns = keys
           /\ Len(ret.rows) = Len(values)
           /\ \A i \in 1..Len(values), j \in 1..Len(keys) :
                 ret.rows[i][keys[j]] = values[i][j]
           /\ (queries[1] = "match_movie" /\ parameters # <<>>) =>
                 ret.rows[1].movie = parameters[1].id

C28_Witness ==
  /\ op = "execute_read_query" /\ Returned
  /\ queries = <<"match_movie">> /\ parameters = <<[id |-> 1]>>
  /\ Len(opened.reads) = 1
  /\ ret = [columns |-> <<"movie">>, rows |-> <<[movie |-> 1]>>]

\* the url names something that can be opened
Reachable(u) ==
  /\ u.scheme \in {"file", "http"} /\ u.target = "present"
  /\ u.scheme = "http" => u.status = 200

\* C29: is_reachable_url never raises: for every url it returns a boolean,
\* True when the file exists or the url is reachable and False otherwise,
\* also when the target does not exist or the host cannot be reached.
C29_ReachableUrlNeverRaises ==
  op = "is_reachable_url" =>
     /\ ~Raised
     /\ Returned => ret \in BOOLEAN /\ ret = Reachable(frame.url)

\* the i-th of the positions of required that hold a key absent from keys
MissingAt(required, keys, i) ==
  LET absent == {m \in 1..Len(required) : ~In(required[m], keys)} IN
  CHOOSE m \in absent : Cardinality({n \in absent : n < m}) = i - 1

IsMissingOf(missing, required, keys) ==
  LET absent == {m \in 1..Len(required) : ~In(required[m], keys)} IN
  /\ Len(missing) = Cardinality(absent)
  /\ \A i \in 1..Len(missing) :
        missing[i] = required[MissingAt(required, keys, i)]

\* C30: check_required_keys returns exactly the required keys absent from
\* keys, in the order of required_keys (the empty list when none is absent);
\* load_yaml_file given required keys and a file holding a mapping raises
\* ValueError exactly when a required key is absent from the lower-cased keys
\* of the mapping, and otherwise returns the mapping with lower-cased keys.
C30_RequiredKeys ==
  /\ (op = "check_required_keys" /\ Returned) =>
        /\ IsMissingOf(ret, frame.required_keys, frame.keys)
        /\ (\A i \in 1..Len(frame.required_keys) :
              In(frame.required_keys[i], frame.keys)) => ret = <<>>
  /\ (/\ op = "load_yaml_file" /\ (Returned \/ Raised)
      /\ frame.required_keys # <<>> /\ frame.yaml_file.state = "mapping") =>
        LET pairs == frame.yaml_file.pairs
            lowered == [i \in 1..Len(pairs) |-> Lower(pairs[i][1])]
            absent == \E i \in 1..Len(frame.required_keys) :
                         ~In(frame.required_keys[i], lowered) IN
        /\ Raised <=> absent
        /\ Raised => exc = "ValueError"
        /\ Returned =>
              /\ \A j \in 1..Len(ret) : ret[j][1] = Lower(ret[j][1])
              /\ \A i \in 1..Len(pairs) : In(lowered[i], DictKeys(ret))
              /\ \A j \in 1..Len(ret) : In(ret[j][1], lowered)
              /\ \A i \in 1..Len(pairs) :
                    (\A k \in (i + 1)..Len(pairs) : lowered[k] # lowered[i])
                       => In(<<lowered[i], pairs[i][2]>>, ret)

C30_Witness ==
  /\ op = "load_yaml_file" /\ Returned
  /\ frame.required_keys = <<"id", "uri">>
  /\ frame.yaml_file.state = "mapping"
  /\ frame.yaml_file.pairs = << <<"uri", 1>>, <<"ID", 2>> >>
  /\ ret = << <<"uri", 1>>, <<"id", 2>> >>

Sequential == op \in DataOps /\ ~parallel

\* C31 as claimed: in sequential mode the Aggregate Result holds, between
\* two transactions, the counters of every transaction committed so far.
C31_MergedAfterEachTransaction ==
  (Sequential /\ pc = "seq_loop") =>
     self_results = MergeAll(EmptyMap, [i \in 1..Len(txlog) |->
                                         txlog[i].counters])

\* C31 amended: in sequential mode the counters of each committed
\* transaction are appended to the call's local list right after it, in
\* transaction order, and the Aggregate Result stays empty until the last
\* transaction has committed; only then are all of them merged into it.
C31_MergedAfterLastTransaction ==
  Sequential =>
     /\ pc \in {"seq_loop", "merge", "copy"} =>
           /\ Len(results) = Len(txlog)
           /\ \A i \in 1..Len(txlog) :
                 txlog[i].outcome = "ok" /\ results[i] = txlog[i].counters
     /\ pc \in {"seq_loop", "merge"} => self_results = EmptyMap
     /\ pc = "copy" =>
           /\ Len(txlog) = Len(queries) * Len(data_chunks)
           /\ self_results = MergeAll(EmptyMap, results)

C31_Witness ==
  /\ Sequential /\ pc = "seq_loop"
  /\ Len(txlog) = 2 /\ Len(results) = 2
  /\ results[1] # results[2]
  /\ MergeAll(EmptyMap, results) # EmptyMap /\ self_results = EmptyMap

\* C32: a call that overlaps another call on the same instance returns the
\* key-wise sum of the counters of its own transactions, and nothing else.
C32_OverlappingCallsIsolated ==
  \A t \in CallerThreads :
     callers[t].pc = "returned" =>
        callers[t].ret = MergeAll(EmptyMap, callers[t].txlog)

\* the task of statement q on batch b has been handed to a worker
Dispatched(q, b) ==
  \/ workerTx[<<q, b>>] # <<>>
  \/ (pc = "par_pool" /\ qi = q /\ b \in DOMAIN tasks /\ tasks[b] # "pending")

\* C33: in parallel mode the statements are separated by a barrier: when a
\* task of statement q is dispatched, the transaction of every earlier
\* statement on every batch has committed and the pools of the earlier
\* statements are gone (one pool per statement reached, one open at most);
\* so once a worker of a statement failed, nothing of a later statement is
\* ever dispatched.
C33_BarrierBetweenStatements ==
  (op \in DataOps /\ parallel /\ workerTx # <<>>) =>
     /\ \A q \in 1..Len(queries), b \in 1..Len(data_chunks) :
           Dispatched(q, b) =>
              /\ \A qa \in 1..(q - 1), ba \in 1..Len(data_chunks) :
                    WorkerTxCommitted(qa, ba)
              /\ opened.pools >= q
     /\ poolOpen => (pc = "par_pool" /\ opened.pools = qi)
     /\ \A q \in 1..Len(queries), b \in 1..Len(data_chunks) :
           (/\ Dispatched(q, b) /\ ~WorkerTxCommitted(q, b)
            /\ ~(pc = "par_pool" /\ qi = q)) =>
              \A qb \in (q + 1)..Len(queries), bb \in 1..Len(data_chunks) :
                 ~Dispatched(qb, bb)

C33_Witness ==
  /\ op \in DataOps /\ parallel /\ Len(queries) = 2 /\ Len(data_chunks) = 2
  /\ pc = "par_pool" /\ qi = 2 /\ opened.pools = 2
  /\ Dispatched(2, 1) /\ ~Dispatched(2, 2)
  /\ WorkerTxCommitted(1, 1) /\ WorkerTxCommitted(1, 2)

\* C34: a with-data call with an empty statement list and a partition count
\* between 1 and the row count runs no transaction and, in either mode,
\* returns the empty mapping: it raises only when the connection is refused.
C34_EmptyStatementList ==
  (/\ op \in DataOps /\ queries = <<>>
   /\ partitions >= 1 /\ partitions <= Shape0(data)) =>
     /\ AllTx = <<>>
     /\ Returned => ret = EmptyMap
     /\ Raised => opened.refused # "none"

\* C35: a with-data call with a partition count of zero or less, or with a
\* dataset of zero rows, raises ValueError with no driver, session, pool or
\* transaction created; a call that gets past its checks has at least one
\* batch and no empty batch, and no transaction carries zero rows.
C35_NoEmptyPartitioning ==
  op \in DataOps =>
     /\ (partitions <= 0 \/ Shape0(data) = 0) =>
           /\ Raised /\ exc = "ValueError"
           /\ opened = NoneOpened /\ NoConnection
           /\ AllTx = <<>> /\ data_chunks = <<>>
     /\ ~Raised =>
           /\ Len(data_chunks) >= 1
           /\ \A b \in 1..Len(data_chunks) : data_chunks[b] # <<>>
     /\ LET txs == AllTx IN \A i \in 1..Len(txs) : txs[i].rows # <<>>

C35_Witness ==
  /\ op \in DataOps /\ partitions = 0 /\ Shape0(data) = 0
  /\ Raised /\ exc = "ValueError" /\ opened = NoneOpened

\* C36: no step of a public operation changes the credentials of the
\* instance, and from the entry of a call until the caller has its result
\* or its exception the statement list, the parameters and the dataset,
\* missing values included, stay what the caller passed.
C36_InputsAndCredentialsKept ==
  [][/\ neo_info' = neo_info
     /\ (pc # "idle" /\ pc' # "idle") =>
           /\ queries' = queries /\ parameters' = parameters
           /\ data' = data]_vars

C36_Witness ==
  /\ op \in DataOps /\ Returned
  /\ Len(data) >= 2 /\ data[2].name = NULL
  /\ Len(AllTx) >= 1 /\ AllTx[Len(AllTx)].rows # <<>>
  /\ \A r \in 1..Len(AllTx[Len(AllTx)].rows) :
        AllTx[Len(AllTx)].rows[r].name # NULL
  /\ neo_info = Credentials /\ parameters = <<[id |-> 1]>>

\* C37: the constructor raises the kind of error the endpoint answers with
\* (AuthError, ServiceUnavailable, ConfigurationError) when the credentials
\* it is given do not give a connection, and constructs the instance
\* otherwise.
C37_ConstructorRaises ==
  [][pc = "new" =>
       IF EndpointAnswer(frame) = "ok" THEN pc' = "idle"
       ELSE pc' = "raised" /\ exc' = EndpointAnswer(frame)]_vars

\* a step of the call in progress, in either strategy
CallStep ==
  \/ GetDriver
  \/ GetSession
  \/ SeqTx
  \/ SeqExit
  \/ PoolStart
  \/ \E b \in 1..(MaxRows + 1) : TaskStart(b)
  \/ \E b \in 1..(MaxRows + 1) : TaskTx(b)
  \/ PoolJoin
  \/ ParDone
  \/ MergeResults
  \/ ReturnResults

\* C38: every call of execute_write_queries_with_data comes to its return
\* or to an exception, in sequential and in parallel mode and whatever the
\* number of batches is next to the worker count, once connection attempts
\* and transactions end; and until then the call can always take a step:
\* it never waits for anything but a connection, a transaction or a task.
C38_CallTerminates ==
  /\ [](op \in DataOps /\ pc \notin {"idle", "returned", "raised"}
          => ENABLED CallStep)
  /\ (op \in DataOps) ~> (op \in DataOps /\ (Returned \/ Raised))

C38_Witness ==
  /\ op = "execute_write_queries_with_data" /\ Returned /\ parallel
  /\ Len(queries) = 2 /\ workers_num = 1 /\ partitions = 3
  /\ Len(AllTx) = 6

Next ==
  \/ execute_write_queries_with_data
  \/ execute_write_query_with_data
  \/ execute_write_queries
  \/ execute_write_query
  \/ execute_read_query
  \/ ReadTx
  \/ GetDriver
  \/ GetSession
  \/ SeqTx
  \/ SeqExit
  \/ WqTx
  \/ WqReturn
  \/ PoolStart
  \/ \E b \in 1..(MaxRows + 1) : TaskStart(b)
  \/ \E b \in 1..(MaxRows + 1) : TaskTx(b)
  \/ PoolJoin
  \/ ParDone
  \/ MergeResults
  \/ ReturnResults
  \/ CallerContinue

Spec == Init /\ [][Next]_vars

\* the parallel strategy of execute_write_query_with_data under every kind
\* of `workers` argument
NextWorkers ==
  \/ execute_write_query_with_data_parallel
  \/ PoolStart
  \/ \E b \in 1..(MaxRows + 1) : TaskStart(b)
  \/ \E b \in 1..(MaxRows + 1) : TaskTx(b)
  \/ PoolJoin
  \/ ParDone
  \/ MergeResults
  \/ ReturnResults
  \/ CallerContinue

SpecWorkers == Init /\ [][NextWorkers]_vars

\* the merge loop of lines 366-372 on any running total and any counters
InitMerge ==
  /\ variant \in Variants
  /\ pc = "merge"
  /\ op = "execute_write_queries_with_data"
  /\ queries = <<"create">> /\ data = DataFrame(1) /\ partitions = 1
  /\ parallel = FALSE /\ workers = <<>> /\ parameters = <<>>
  /\ data_chunks = <<DataFrame(1)>> /\ params = EmptyMap /\ workers_num = 0
  /\ results \in {<<d>> : d \in CounterMaps} /\ resultsBound = TRUE
  /\ self_results \in RunningTotals
  /\ wq_results = EmptyMap
  /\ bi = 2 /\ qi = 1
  /\ ret = EmptyMap /\ exc = "none"
  /\ openDrivers = {} /\ openSessions = {}
  /\ poolOpen = FALSE /\ tasks = <<>> /\ taskRet = <<>> /\ poolErr = "none"
  /\ poolCause = "none"
  /\ opened = [NoneOpened EXCEPT !.callerDrivers = 1, !.callerSessions = 1]
  /\ txlog = <<>> /\ workerTx = <<>>
  /\ threads = <<>> /\ lock = 0 /\ snap = <<>>
  /\ frame = <<>>
  /\ callers = NoCallers
  /\ neo_info = Credentials

NextMerge ==
  \/ MergeResults
  \/ ReturnResults
  \/ CallerContinue

SpecMerge == InitMerge /\ [][NextMerge]_vars

\* the threaded strategy
NextThreaded ==
  \/ ThreadedEnter
  \/ ThreadedConnect
  \/ ThreadSpawn
  \/ \E b \in 1..(MaxRows + 1) : ThreadStart(b)
  \/ \E b \in 1..(MaxRows + 1) : ThreadTx(b)
  \/ \E b \in 1..(MaxRows + 1) : MergeBegin(b)
  \/ \E b \in 1..(MaxRows + 1) : MergeEnd(b)
  \/ ThreadedJoin
  \/ CallerContinue

SpecThreaded == Init /\ [][NextThreaded]_vars

\* the processes of the pool keep taking tasks while one is pending, a
\* transaction issued to the database ends, and starmap hands back once the
\* tasks are done
SpecWorkersFair ==
  /\ SpecWorkers
  /\ \A b \in 1..(MaxRows + 1) : WF_vars(TaskStart(b)) /\ WF_vars(TaskTx(b))
  /\ WF_vars(PoolJoin)

\* the helper functions of util and fileload
NextHelpers ==
  \/ is_reachable_url
  \/ UrlOpen
  \/ UrlReturn
  \/ CheckRequiredKeys
  \/ load_yaml_file
  \/ YamlOpen
  \/ YamlCheck
  \/ CallerContinue

SpecHelpers == Init /\ [][NextHelpers]_vars

\* two caller threads calling into the same instance
NextOverlap ==
  \/ \E t \in CallerThreads : OverlapEnter(t)
  \/ \E t \in CallerThreads : OverlapTx(t)
  \/ \E t \in CallerThreads : OverlapExit(t)
  \/ \E t \in CallerThreads : OverlapMerge(t)
  \/ \E t \in CallerThreads : OverlapReturn(t)
  \/ \E t \in CallerThreads : OverlapContinue(t)

SpecOverlap == Init /\ [][NextOverlap]_vars

\* construction of an instance, then read queries on it
NextConstruct ==
  \/ Construct
  \/ execute_read_query
  \/ GetDriver
  \/ GetSession
  \/ ReadTx
  \/ CallerContinue

SpecConstruct == InitConstruct /\ [][NextConstruct]_vars

\* the calls of execute_write_queries_with_data, in both strategies
NextCalls ==
  \/ execute_write_queries_with_data_accepted
  \/ GetDriver
  \/ GetSession
  \/ SeqTx
  \/ SeqExit
  \/ PoolStart
  \/ \E b \in 1..(MaxRows + 1) : TaskStart(b)
  \/ \E b \in 1..(MaxRows + 1) : TaskTx(b)
  \/ PoolJoin
  \/ ParDone
  \/ MergeResults
  \/ ReturnResults
  \/ CallerContinue

SpecCalls == Init /\ [][NextCalls]_vars

\* a connection attempt and a transaction end, a free worker takes the next
\* pending task, and the caller's thread keeps running its loops
SpecCallsFair ==
  /\ SpecCalls
  /\ WF_vars(GetDriver) /\ WF_vars(GetSession)
  /\ WF_vars(SeqTx) /\ WF_vars(SeqExit)
  /\ WF_vars(PoolStart) /\ WF_vars(PoolJoin) /\ WF_vars(ParDone)
  /\ \A b \in 1..(MaxRows + 1) : WF_vars(TaskStart(b)) /\ WF_vars(TaskTx(b))
  /\ WF_vars(MergeResults) /\ WF_vars(ReturnResults)

====
